---- MODULE Spec2Model ----
(***************************************************************************)
(* Verification model of the caption-driven media-editing pipeline         *)
(* (gvaldez81/whatsappbot_news).                                           *)
(*                                                                         *)
(* Text is modelled as a sequence of one-character strings, so that        *)
(* trimming, lower/upper-casing, splitting and joining are computed and    *)
(* not assumed.  Four independent parts of the program are modelled, each  *)
(* with its own specification over the shared variables:                   *)
(*   SpecCaption  - processors/captions.py classify and the caption        *)
(*                  normalisation of generate_image.generate_from_media     *)
(*   SpecWrap     - processors/text_render.py get_title_lines, one action  *)
(*                  per loop iteration / statement block                    *)
(*   SpecCrop     - processors/crop.py crop_center_aspect                  *)
(*   SpecEdition  - generate_image.py generate_all_from_link and           *)
(*                  generate_from_media with the edition composer           *)
(***************************************************************************)
EXTENDS Integers, Sequences, FiniteSets, TLC

VARIABLES
    caption,        \* classify / generate_from_media: the caption argument
    pcC,            \* caption part: "input" | "classified" | "routed" | "idle"
    cls,            \* caption part: the (kind, extra) pair returned
    title_text,     \* get_title_lines: the title argument
    font,           \* get_title_lines: per-glyph advance of the loaded font
    tracking,       \* get_title_lines: tracking argument
    max_width,      \* get_title_lines: max_width argument
    max_lines,      \* get_title_lines: max_lines argument
    words,          \* get_title_lines: local words
    index,          \* get_title_lines: local index
    current_line,   \* get_title_lines: local current_line
    lines,          \* get_title_lines: local lines (the return value)
    pcW,            \* get_title_lines: "start" | "loop" | "last" | "done" | "idle"
    img_size,       \* crop_center_aspect: img.size as <<w, h>>
    target_ratio,   \* crop_center_aspect: target_ratio as the fraction <<p, q>>
    crop_box,       \* crop_center_aspect: the box handed to img.crop
    pcK,            \* crop part: "input" | "done" | "idle"
    entry,          \* edition part: "none" | "link" | "media", the function called
    pcE,            \* edition part: position in the called function
    base_settings,  \* the base_settings argument (a dict)
    effect_kw,      \* generate_all_from_link: the effect keyword of the call
    media_caption,  \* generate_from_media: the caption argument
    image,          \* the base image: downloaded (link) or decoded (media)
    meta,           \* generate_all_from_link: the dict articulo7.apply returned
    fetches,        \* number of calls of articulo7.apply
    downloads,      \* number of calls of _load_image_from_url
    dir,            \* the editions directory as the file system holds it
    loaded,         \* what _load_variant_confs_from_dir returned
    editions,       \* generate_all_from_link: local editions
    ed_i,           \* generate_all_from_link: editions already iterated
    chosen,         \* generate_from_media: local chosen
    composed,       \* the calls of _apply_edition that returned, in order
    failures,       \* the variants logger.exception reported, in order
    results,        \* the value returned (link: list; media: one pair)
    error,          \* the exception the function raised, or NoError
    merge_base,     \* _deep_merge / merge_dict: the base argument
    merge_override, \* _deep_merge / merge_dict: the override argument
    merge_out,      \* _deep_merge / merge_dict: the dict returned
    pcM,             \* merge part: "input" | "deep" | "dict" | "idle"
    heap,           \* the dict objects of the process, by identity
    settings,       \* identity of the base settings dict, 0 before it is loaded
    settings0,      \* the base settings as loaded, by value
    requests,        \* the edition configurations built so far, one per request
    media_bytes,    \* the buffer process_media is called with
    media_cap,      \* the caption process_media is called with
    output_format,  \* config output.format
    pcU,            \* process_media's position
    imgs,           \* the PIL images of the call, by identity
    applied,        \* the processor apply_effects_to_image called, its input and result
    media_result,    \* what process_media returns or raises
    verify_token,   \* VERIFY_TOKEN, fixed when the module is loaded
    request,        \* the query of the last GET /webhook
    response,       \* the answer to the last GET /webhook
    message,        \* the message of the last POST /webhook
    classified,     \* classify_message's result for it
    pcB,            \* the webhook's position
    calls,          \* the API and processing calls of the handler, with their outcomes
    delivered       \* what reached the user

captionVars == <<caption, pcC, cls>>
wrapVars == <<title_text, font, tracking, max_width, max_lines, words, index,
              current_line, lines, pcW>>
cropVars == <<img_size, target_ratio, crop_box, pcK>>
editionVars == <<entry, pcE, base_settings, effect_kw, media_caption, image, meta,
                 fetches, downloads, dir, loaded, editions, ed_i, chosen,
                 composed, failures, results, error>>
mergeVars == <<merge_base, merge_override, merge_out, pcM>>
settingsVars == <<heap, settings, settings0, requests>>
universalVars == <<media_bytes, media_cap, output_format, pcU, imgs, applied, media_result>>
botVars == <<verify_token, request, response, message, classified, pcB, calls, delivered>>
vars == <<captionVars, wrapVars, cropVars, editionVars, mergeVars, settingsVars, universalVars, botVars>>

-----------------------------------------------------------------------------
(* Bounds of the model *)

MaxFrags == 3       \* a caption is the concatenation of at most MaxFrags fragments
MaxWords == 3       \* a title has at most MaxWords words
MaxAdv == 2         \* glyph advances range over 1..MaxAdv
MaxWidthPx == 6     \* max_width ranges over -1..MaxWidthPx
MaxLinesArg == 3    \* max_lines ranges over 0..MaxLinesArg
MaxDim == 6         \* image sides range over 1..MaxDim (and 1000, 2000)
MaxRatioTerm == 5   \* target ratios are p/q with p, q in 1..MaxRatioTerm

-----------------------------------------------------------------------------
(* Python str primitives on sequences of characters *)

\* str.isspace for the characters of the model
IsSpace(c) == c \in {" ", "\t"}

\* str.lower, per character
LowerChar(c) ==
    CASE c = "L" -> "l"
      [] c = "G" -> "g"
      [] c = "H" -> "h"
      [] c = "A" -> "a"
      [] c = "W" -> "w"
      [] c = "B" -> "b"
      [] c = "R" -> "r"
      [] c = "U" -> "u"
      [] OTHER -> c

\* str.upper, per character
UpperChar(c) ==
    CASE c = "l" -> "L"
      [] c = "g" -> "G"
      [] c = "h" -> "H"
      [] c = "a" -> "A"
      [] c = "w" -> "W"
      [] OTHER -> c

Lower(s) == [i \in 1..Len(s) |-> LowerChar(s[i])]
Upper(s) == [i \in 1..Len(s) |-> UpperChar(s[i])]

\* number of leading whitespace characters of s
LeadingSpaces(s) ==
    IF \A i \in 1..Len(s) : IsSpace(s[i]) THEN Len(s)
    ELSE (CHOOSE i \in 1..Len(s) : ~IsSpace(s[i]) /\ \A j \in 1..(i-1) : IsSpace(s[j])) - 1

\* number of leading non-whitespace characters of s
LeadingToken(s) ==
    IF \A i \in 1..Len(s) : ~IsSpace(s[i]) THEN Len(s)
    ELSE (CHOOSE i \in 1..Len(s) : IsSpace(s[i]) /\ \A j \in 1..(i-1) : ~IsSpace(s[j])) - 1

\* number of trailing whitespace characters of s
TrailingSpaces(s) ==
    IF \A i \in 1..Len(s) : IsSpace(s[i]) THEN Len(s)
    ELSE Len(s) - (CHOOSE i \in 1..Len(s) : ~IsSpace(s[i]) /\ \A j \in (i+1)..Len(s) : IsSpace(s[j]))

Drop(s, n) == SubSeq(s, n + 1, Len(s))

\* str.lstrip(), str.strip()
LStrip(s) == Drop(s, LeadingSpaces(s))
Strip(s) ==
    IF \A i \in 1..Len(s) : IsSpace(s[i]) THEN <<>>
    ELSE SubSeq(s, LeadingSpaces(s) + 1, Len(s) - TrailingSpaces(s))

\* str.startswith
StartsWith(s, p) == Len(s) >= Len(p) /\ SubSeq(s, 1, Len(p)) = p

\* str.split(maxsplit=1): at most two parts; the second keeps its trailing blanks
SplitMax1(s) ==
    LET a == LStrip(s)
        n == LeadingToken(a)
        rest == LStrip(Drop(a, n))
    IN  IF a = <<>> THEN <<>>
        ELSE IF rest = <<>> THEN <<SubSeq(a, 1, n)>>
        ELSE <<SubSeq(a, 1, n), rest>>

\* str.split(): the whitespace-delimited words of s
RECURSIVE Split(_)
Split(s) ==
    LET a == LStrip(s)
        n == LeadingToken(a)
    IN  IF a = <<>> THEN <<>>
        ELSE <<SubSeq(a, 1, n)>> \o Split(Drop(a, n))

\* " ".join(ws)
RECURSIVE Join(_)
Join(ws) ==
    IF ws = <<>> THEN <<>>
    ELSE IF Len(ws) = 1 THEN ws[1]
    ELSE ws[1] \o <<" ">> \o Join(Tail(ws))

-----------------------------------------------------------------------------
(* processors/captions.py *)

\* the caption None
None == <<"None">>

\* the dict {} and the dict {"text": t}
NoExtra == {}
TextExtra(t) == {<<"text", t>>}

KwLogo == <<"l", "o", "g", "o">>
KwWatermark == <<"w", "a", "t", "e", "r", "m", "a", "r", "k">>
KwBig == <<"b", "i", "g">>
KwRecorte == <<"r", "e", "c", "o", "r", "t", "e">>
KwBlur == <<"b", "l", "u", "r">>

\* parts[1].strip() if len(parts) > 1 else ""
RestText(s) ==
    LET parts == SplitMax1(s)
    IN  IF Len(parts) > 1 THEN Strip(parts[2]) ELSE <<>>

\* a mis-ordered classify: the prefix rules are tried before the exact ones,
\* and the exact rules are prefix rules
classifyPrefixLogo(c) ==
    IF c = None \/ c = <<>> THEN [kind |-> "unknown", extra |-> NoExtra]
    ELSE LET cap == Lower(Strip(c))
         IN  IF StartsWith(cap, KwLogo) THEN [kind |-> "logo", extra |-> NoExtra]
             ELSE IF StartsWith(cap, KwWatermark) THEN [kind |-> "watermark", extra |-> NoExtra]
             ELSE IF StartsWith(cap, KwBig)
                  THEN [kind |-> "bigtext", extra |-> TextExtra(RestText(c))]
             ELSE IF StartsWith(cap, KwRecorte) THEN [kind |-> "recorte", extra |-> NoExtra]
             ELSE IF StartsWith(cap, KwBlur) THEN [kind |-> "blur", extra |-> NoExtra]
             ELSE [kind |-> "text", extra |-> TextExtra(c)]

\* a classify that keeps the remainder untrimmed
classifyNoStrip(c) ==
    IF c = None \/ c = <<>> THEN [kind |-> "unknown", extra |-> NoExtra]
    ELSE LET cap == Lower(Strip(c))
         IN  IF cap = KwLogo THEN [kind |-> "logo", extra |-> NoExtra]
             ELSE IF cap = KwWatermark THEN [kind |-> "watermark", extra |-> NoExtra]
             ELSE IF StartsWith(cap, KwBig)
                  THEN [kind |-> "bigtext",
                        extra |-> TextExtra(IF Len(SplitMax1(c)) > 1
                                            THEN SplitMax1(c)[2] ELSE <<>>)]
             ELSE IF StartsWith(cap, KwRecorte) THEN [kind |-> "recorte", extra |-> NoExtra]
             ELSE IF StartsWith(cap, KwBlur) THEN [kind |-> "blur", extra |-> NoExtra]
             ELSE [kind |-> "text", extra |-> TextExtra(c)]

\* a classify that extracts the trailing text for recorte and blur as well
classifyExtractAll(c) ==
    IF c = None \/ c = <<>> THEN [kind |-> "unknown", extra |-> NoExtra]
    ELSE LET cap == Lower(Strip(c))
         IN  IF cap = KwLogo THEN [kind |-> "logo", extra |-> NoExtra]
             ELSE IF cap = KwWatermark THEN [kind |-> "watermark", extra |-> NoExtra]
             ELSE IF StartsWith(cap, KwBig)
                  THEN [kind |-> "bigtext", extra |-> TextExtra(RestText(c))]
             ELSE IF StartsWith(cap, KwRecorte)
                  THEN [kind |-> "recorte", extra |-> TextExtra(RestText(c))]
             ELSE IF StartsWith(cap, KwBlur)
                  THEN [kind |-> "blur", extra |-> TextExtra(RestText(c))]
             ELSE [kind |-> "text", extra |-> TextExtra(c)]

\* classify(caption) -> (kind, extra)
classify(c) ==
    IF c = None \/ c = <<>> THEN [kind |-> "unknown", extra |-> NoExtra]
    ELSE LET cap == Lower(Strip(c))
         IN  IF cap = KwLogo THEN [kind |-> "logo", extra |-> NoExtra]
             ELSE IF cap = KwWatermark THEN [kind |-> "watermark", extra |-> NoExtra]
             ELSE IF StartsWith(cap, KwBig)
                  THEN [kind |-> "bigtext", extra |-> TextExtra(RestText(c))]
             ELSE IF StartsWith(cap, KwRecorte) THEN [kind |-> "recorte", extra |-> NoExtra]
             ELSE IF StartsWith(cap, KwBlur) THEN [kind |-> "blur", extra |-> NoExtra]
             ELSE [kind |-> "text", extra |-> TextExtra(c)]

\* generate_from_media, the caption normalisation: (caption or "").strip(),
\* classify, and the override for captions starting with "big"
media_kind(c) ==
    LET raw_caption == IF c = None THEN <<>> ELSE Strip(c)
        ke == classify(raw_caption)
    IN  IF StartsWith(Lower(raw_caption), KwBig)
        THEN [kind |-> "bigtext", extra |-> TextExtra(RestText(raw_caption))]
        ELSE ke

\* the fragments captions are built from
Fragments ==
    { KwLogo, <<"L", "o", "G", "o">>, KwWatermark, KwBig, KwRecorte, KwBlur,
      <<"g", "e", "r">>, <<"p", "l", "e", "a", "s", "e">>, <<" ", "H", "i", " ">>,
      <<" ">>, <<"\t">> }

RECURSIVE Concat(_)
Concat(fs) == IF fs = <<>> THEN <<>> ELSE fs[1] \o Concat(Tail(fs))

Captions ==
    {None} \cup
    UNION { {Concat(fs) : fs \in [1..n -> Fragments]} : n \in 0..MaxFrags }

InitCaption ==
    /\ caption \in Captions
    /\ pcC = "input"
    /\ cls = [kind |-> "none", extra |-> NoExtra]

\* a caller invokes captions.classify(caption)
Classify ==
    /\ pcC = "input"
    /\ cls' = classify(caption)
    /\ pcC' = "classified"
    /\ UNCHANGED <<caption, wrapVars, cropVars, editionVars, mergeVars, settingsVars, universalVars, botVars>>

\* generate_from_media normalises and classifies its caption argument
MediaClassify ==
    /\ pcC = "input"
    /\ cls' = media_kind(caption)
    /\ pcC' = "routed"
    /\ UNCHANGED <<caption, wrapVars, cropVars, editionVars, mergeVars, settingsVars, universalVars, botVars>>

IdleCaption ==
    /\ caption = <<>>
    /\ pcC = "idle"
    /\ cls = [kind |-> "none", extra |-> NoExtra]

-----------------------------------------------------------------------------
(* processors/text_render.py get_title_lines *)

Glyphs == {"A", "W", ".", " "}

\* font.getbbox(c)[2] - font.getbbox(c)[0] for each glyph of the model
Fonts == {f \in [Glyphs -> 1..MaxAdv] : f["A"] = 1 /\ f[" "] = 1}

Trackings == {-1, 0}

Max(a, b) == IF a >= b THEN a ELSE b

\* char_width(c)
char_width(f, c) == f[c]

\* text_width(text)
RECURSIVE text_width(_, _, _)
text_width(f, t, text) ==
    IF text = <<>> THEN 0
    ELSE (IF Head(text) # " " THEN Max(char_width(f, Head(text)) + t, 1)
          ELSE char_width(f, " "))
         + text_width(f, t, Tail(text))

Ellipsis == <<".", ".", ".">>

\* the words titles are built from (before upper-casing)
TitleWords == { <<"a">>, <<"W", "a">> }

Titles ==
    UNION { {Join(ws) : ws \in [1..n -> TitleWords]} : n \in 0..MaxWords }

InitWrap ==
    /\ title_text = <<>>
    /\ font = [g \in Glyphs |-> 1]
    /\ tracking = 0
    /\ max_width = 0
    /\ max_lines = 0
    /\ words = <<>>
    /\ index = 0
    /\ current_line = <<>>
    /\ lines = <<>>
    /\ pcW = "start"

\* get_title_lines is called with some arguments and runs up to the loop:
\* font = ImageFont.truetype(...); words = title_text.upper().split();
\* lines = []; current_line = ""; index = 0
WrapStart ==
    /\ pcW = "start"
    /\ title_text' \in Titles
    /\ font' \in Fonts
    /\ tracking' \in Trackings
    /\ max_width' \in -1..MaxWidthPx
    /\ max_lines' \in 0..MaxLinesArg
    /\ words' = Split(Upper(title_text'))
    /\ lines' = <<>>
    /\ current_line' = <<>>
    /\ index' = 0
    /\ pcW' = "loop"
    /\ UNCHANGED <<captionVars, cropVars, editionVars, mergeVars, settingsVars, universalVars, botVars>>

wrapArgs == <<title_text, font, tracking, max_width, max_lines>>

\* a while condition without the limit on the number of lines
LoopCondNoLimit == index < Len(words)

\* the while condition
LoopCond == index < Len(words) /\ Len(lines) < max_lines - 1

\* word = words[index]  (index is 0-based in the code)
word == words[index + 1]

\* test_line = (current_line + " " + word).strip() if current_line else word
test_line == IF current_line # <<>> THEN Strip(current_line \o <<" ">> \o word) ELSE word

\* loop body, test_line fits: current_line = test_line; index += 1
PackWord ==
    /\ pcW = "loop"
    /\ LoopCond
    /\ text_width(font, tracking, test_line) <= max_width
    /\ current_line' = test_line
    /\ index' = index + 1
    /\ UNCHANGED <<wrapArgs, words, lines, pcW, captionVars, cropVars, editionVars, mergeVars, settingsVars, universalVars, botVars>>

\* loop body, test_line does not fit and current_line is non-empty:
\* lines.append(current_line); current_line = ""
CloseLine ==
    /\ pcW = "loop"
    /\ LoopCond
    /\ text_width(font, tracking, test_line) > max_width
    /\ current_line # <<>>
    /\ lines' = Append(lines, current_line)
    /\ current_line' = <<>>
    /\ UNCHANGED <<wrapArgs, words, index, pcW, captionVars, cropVars, editionVars, mergeVars, settingsVars, universalVars, botVars>>

\* an else branch that neither emits the over-wide word nor consumes it
ForceWordStuck ==
    /\ pcW = "loop"
    /\ LoopCond
    /\ text_width(font, tracking, test_line) > max_width
    /\ current_line = <<>>
    /\ current_line' = <<>>
    /\ UNCHANGED <<wrapArgs, words, index, lines, pcW, captionVars, cropVars, editionVars, mergeVars, settingsVars, universalVars, botVars>>

\* loop body, a word wider than max_width on an empty line:
\* lines.append(word); index += 1; current_line = ""
ForceWord ==
    /\ pcW = "loop"
    /\ LoopCond
    /\ text_width(font, tracking, test_line) > max_width
    /\ current_line = <<>>
    /\ lines' = Append(lines, word)
    /\ index' = index + 1
    /\ current_line' = <<>>
    /\ UNCHANGED <<wrapArgs, words, pcW, captionVars, cropVars, editionVars, mergeVars, settingsVars, universalVars, botVars>>

\* the while condition is false; if current_line: lines.append(current_line)
LoopExit ==
    /\ pcW = "loop"
    /\ ~LoopCond
    /\ lines' = IF current_line # <<>> THEN Append(lines, current_line) ELSE lines
    /\ pcW' = "last"
    /\ UNCHANGED <<wrapArgs, words, index, current_line, captionVars, cropVars, editionVars, mergeVars, settingsVars, universalVars, botVars>>

\* the remaining words taken one word late
remaining_words_late == SubSeq(words, index + 2, Len(words))

\* remaining_words = words[index:]
remaining_words == SubSeq(words, index + 1, Len(words))

\* last_line = " ".join(remaining_words)
last_line == Join(remaining_words)

\* " ".join(remaining_words[:i + 1]) + "..."   (i is 0-based)
candidate(i) == Join(SubSeq(remaining_words, 1, i + 1)) \o Ellipsis

\* the indices i of the for loop at which the candidate is too wide
TooWide == {i \in 0..(Len(remaining_words) - 1) :
                text_width(font, tracking, candidate(i)) > max_width}

Min(S) == CHOOSE x \in S : \A y \in S : x <= y

\* the for ... else: the line appended when last_line does not fit
truncated_line ==
    IF TooWide # {}
    THEN Join(SubSeq(remaining_words, 1, Min(TooWide))) \o Ellipsis
    ELSE last_line

\* the tail of the function with the padding repeated up to max_lines
RECURSIVE PadTo(_, _)
PadTo(ls, n) == IF Len(ls) < n THEN PadTo(Append(ls, <<>>), n) ELSE ls

final_lines_padded ==
    IF Len(lines) = max_lines - 1
    THEN IF text_width(font, tracking, last_line) <= max_width
         THEN Append(lines, last_line)
         ELSE Append(lines, truncated_line)
    ELSE PadTo(lines, max_lines)

\* the if / elif after the loop: the value returned
final_lines ==
    IF Len(lines) = max_lines - 1
    THEN IF text_width(font, tracking, last_line) <= max_width
         THEN Append(lines, last_line)
         ELSE Append(lines, truncated_line)
    ELSE IF Len(lines) < max_lines THEN Append(lines, <<>>)
    ELSE lines

\* the last line is decided and the function returns
WrapFinish ==
    /\ pcW = "last"
    /\ lines' = final_lines
    /\ pcW' = "done"
    /\ UNCHANGED <<wrapArgs, words, index, current_line, captionVars, cropVars, editionVars, mergeVars, settingsVars, universalVars, botVars>>

IdleWrap ==
    /\ title_text = <<>>
    /\ font = [g \in Glyphs |-> 1]
    /\ tracking = 0
    /\ max_width = 0
    /\ max_lines = 0
    /\ words = <<>>
    /\ index = 0
    /\ current_line = <<>>
    /\ lines = <<>>
    /\ pcW = "idle"

-----------------------------------------------------------------------------
(* processors/crop.py crop_center_aspect *)

NoBox == <<0, 0, 0, 0>>

Dims == (1..MaxDim) \cup {1000, 2000}

Ratios == (1..MaxRatioTerm) \X (1..MaxRatioTerm)

InitCrop ==
    /\ img_size \in Dims \X Dims
    /\ target_ratio \in Ratios
    /\ crop_box = NoBox
    /\ pcK = "input"

\* a crop that anchors the box at the origin instead of centring it
crop_box_uncentred(w, h, p, q) ==
    IF w * q > h * p
    THEN LET new_width == (h * p) \div q
         IN  <<0, 0, new_width, h>>
    ELSE LET new_height == (w * q) \div p
         IN  <<0, 0, w, new_height>>

\* the box (left, upper, right, lower) crop_center_aspect hands to img.crop,
\* for an image of w x h and target_ratio = p / q
crop_center_box(w, h, p, q) ==
    IF w * q > h * p
    THEN LET new_width == (h * p) \div q
             left == (w - new_width) \div 2
         IN  <<left, 0, left + new_width, h>>
    ELSE LET new_height == (w * q) \div p
             top == (h - new_height) \div 2
         IN  <<0, top, w, top + new_height>>

CropCenterAspect ==
    /\ pcK = "input"
    /\ crop_box' = crop_center_box(img_size[1], img_size[2], target_ratio[1], target_ratio[2])
    /\ pcK' = "done"
    /\ UNCHANGED <<img_size, target_ratio, captionVars, wrapVars, editionVars, mergeVars, settingsVars, universalVars, botVars>>

IdleCrop ==
    /\ img_size = <<1, 1>>
    /\ target_ratio = <<1, 1>>
    /\ crop_box = NoBox
    /\ pcK = "idle"

-----------------------------------------------------------------------------
(* generate_image.py: configurations, the edition composer, the encoder     *)

MaxEditions == 3    \* an editions directory holds at most MaxEditions files

\* A Python dict is a function from its keys to tagged values: S(x) is a
\* scalar x, D(f) is the nested dict f.  JSON numbers that the code passes
\* through int() are kept as their text.
S(x) == <<"s", x>>
D(f) == <<"d", f>>
IsDict(v) == v[1] = "d"
EmptyDict == <<>>

\* d.get(k, dflt) for a scalar entry
GetS(d, k, dflt) == IF k \in DOMAIN d THEN d[k][2] ELSE dflt

\* d.get(k, {}) for a nested dict
GetD(d, k) == IF k \in DOMAIN d THEN d[k][2] ELSE EmptyDict

\* a merge that replaces a nested dict wholesale instead of merging into it
shallow_merge(base, override) ==
    [k \in DOMAIN base \cup DOMAIN override |->
        IF k \in DOMAIN override THEN override[k] ELSE base[k]]

\* _deep_merge(base, override)
RECURSIVE deep_merge(_, _)
deep_merge(base, override) ==
    [k \in DOMAIN base \cup DOMAIN override |->
        IF k \in DOMAIN override
        THEN IF IsDict(override[k]) /\ k \in DOMAIN base /\ IsDict(base[k])
             THEN D(deep_merge(base[k][2], override[k][2]))
             ELSE override[k]
        ELSE base[k]]

\* literal texts of generate_image.py (accents dropped)
SinTitulo == <<"S", "i", "n", " ", "t", "i", "t", "u", "l", "o">>
Articulo7 == <<"A", "R", "T", "I", "C", "U", "L", "O", " ", "7">>
Edicion == <<"E", "D", "I", "C", "I", "O", "N">>

\* the font files on disk, as <<directory, file name>>
FontFiles ==
    { <<"assets/fonts", "Montserrat-Light.ttf">>, <<"assets/fonts", "Impact.ttf">> }

\* JSON values int() accepts
IntLiterals == {"56", "36", "25"}

\* _safe_truetype(path, size): the font loaded, or PIL's default font when
\* ImageFont.truetype raises
safe_truetype(path) ==
    IF path \in FontFiles THEN "truetype" ELSE "default"

\* the images the bot receives: PIL size and mode
Images ==
    { [size |-> <<2000, 1000>>, mode |-> "RGB"],
      [size |-> <<1080, 1350>>, mode |-> "RGBA"] }

NoImage == [size |-> <<0, 0>>, mode |-> "none"]

Raise(exc) == [ok |-> FALSE, exc |-> exc]

\* a _compose_title_and_category whose title font must load
compose_title_and_category_strict(base, steps, title, category, cfg_assets, cfg_text) ==
    LET fonts_dir == GetS(cfg_assets, "fonts_dir", "assets/fonts")
        path == GetS(cfg_text, "title_font", <<fonts_dir, "Montserrat-Light.ttf">>)
    IN  IF GetS(cfg_text, "title_size", "56") \notin IntLiterals
             \/ GetS(cfg_text, "category_size", "36") \notin IntLiterals
        THEN Raise("ValueError")
        ELSE IF path \notin FontFiles THEN Raise("OSError")
        ELSE [ok |-> TRUE,
              size |-> base.size,
              mode |-> base.mode,
              steps |-> steps \o <<"title">>
                        \o (IF category # <<>> THEN <<"category">> ELSE <<>>),
              title |-> Strip(title),
              category |-> Strip(category),
              title_font |-> "truetype"]

\* _compose_title_and_category(base, title, category, cfg_assets, cfg_text):
\* a copy of base with the title and, when non-empty, the category drawn;
\* steps are the operations already applied to base
compose_title_and_category(base, steps, title, category, cfg_assets, cfg_text) ==
    LET fonts_dir == GetS(cfg_assets, "fonts_dir", "assets/fonts")
        title_font == safe_truetype(GetS(cfg_text, "title_font",
                                         <<fonts_dir, "Montserrat-Light.ttf">>))
    IN  IF GetS(cfg_text, "title_size", "56") \notin IntLiterals
             \/ GetS(cfg_text, "category_size", "36") \notin IntLiterals
        THEN Raise("ValueError")
        ELSE [ok |-> TRUE,
              size |-> base.size,
              mode |-> base.mode,
              steps |-> steps \o <<"title">>
                        \o (IF category # <<>> THEN <<"category">> ELSE <<>>),
              title |-> Strip(title),
              category |-> Strip(category),
              title_font |-> title_font]

\* _apply_edition(base_img, title, category, edition_cfg)
apply_edition(base_img, title, category, edition_cfg) ==
    LET m == GetS(edition_cfg, "mode", <<>>)
        mode == Lower(IF m = <<>> THEN KwRecorte ELSE m)
        text_cfg == GetD(edition_cfg, "text")
        assets_cfg == GetD(edition_cfg, "assets")
    IN  IF mode = KwBlur
        THEN IF GetS(GetD(edition_cfg, "blur"), "radius", "25") \notin IntLiterals
             THEN Raise("ValueError")
             ELSE compose_title_and_category(base_img, <<"blur">>, title, category,
                                             assets_cfg, text_cfg)
        ELSE compose_title_and_category(base_img, <<>>, title, category,
                                        assets_cfg, text_cfg)

\* formats PIL can write
KnownFormats == {"JPEG", "PNG"}

\* str.upper on a format name
UpperFormat(f) ==
    CASE f = "jpeg" -> "JPEG"
      [] f = "png" -> "PNG"
      [] OTHER -> f

\* _save_to_bytes(img, format_hint): the bytes of img written in a format
save_to_bytes(img, format_hint) ==
    LET hint == UpperFormat(IF format_hint = "" THEN "JPEG" ELSE format_hint)
        fmt == IF img.mode \in {"RGBA", "LA"} THEN "PNG" ELSE hint
    IN  IF fmt \notin KnownFormats THEN Raise("KeyError")
        ELSE [ok |-> TRUE, encoding |-> fmt, img |-> img]

\* base_settings as the caller loaded them
BaseSettings ==
    { ("default_category" :> S(Articulo7))
        @@ ("text" :> D(("title_font" :> S(<<"assets/fonts", "Montserrat-Light.ttf">>))
                        @@ ("title_size" :> S("56")))),
      ("default_category" :> S(Articulo7))
        @@ ("mode" :> S(<<"B", "L", "U", "R">>))
        @@ ("output" :> D(("width" :> S(1080)) @@ ("height" :> S(1350))))
        @@ ("text" :> D(("title_font" :> S(<<"assets/fonts", "Montserrat-Light.ttf">>))
                        @@ ("title_size" :> S("56")))) }

\* the edition files of the model: what json.load yields, or a syntax error
EditionFiles ==
    { [valid |-> TRUE, json |-> ("mode" :> S(KwRecorte))],
      [valid |-> TRUE,
       json |-> ("mode" :> S(<<"B", "l", "u", "r">>))
                @@ ("filters" :> D(("vignette" :> D("strength" :> S("0.5")))
                                   @@ ("bottom_shadow" :> D("height" :> S("0.4")))))
                @@ ("output" :> D(("width" :> S(1080)) @@ ("height" :> S(1080))
                                  @@ ("format" :> S("jpeg"))))],
      [valid |-> TRUE,
       json |-> ("mode" :> S(<<"f", "i", "t">>))
                @@ ("filters" :> D("vignette" :> D("strength" :> S("0.5"))))
                @@ ("output" :> D("format" :> S("webpx")))],
      [valid |-> TRUE,
       json |-> ("text" :> D("title_font" :> S(<<"assets/fonts", "Missing.ttf">>)))],
      [valid |-> TRUE,
       json |-> ("mode" :> S(KwBlur)) @@ ("text" :> D("title_size" :> S("big")))],
      [valid |-> FALSE, json |-> ("syntax_error" :> S("line 1"))] }

\* file names, in lexicographic order
FileNames == <<"a", "b", "c", "d", "e">>
Rank(name) == CHOOSE i \in 1..Len(FileNames) : FileNames[i] = name

Reverse(s) == [i \in 1..Len(s) |-> s[Len(s) + 1 - i]]

\* the editions directory: absent, or files *.json in the order glob yields
NoDir == [exists |-> FALSE, glob |-> <<>>]
Dirs ==
    {NoDir} \cup
    UNION { UNION { { [exists |-> TRUE,
                        glob |-> [i \in 1..n |-> [name |-> FileNames[i],
                                                   valid |-> c[i].valid,
                                                   json |-> c[i].json]]],
                      [exists |-> TRUE,
                        glob |-> Reverse([i \in 1..n |-> [name |-> FileNames[i],
                                                           valid |-> c[i].valid,
                                                           json |-> c[i].json]])] }
                    : c \in [1..n -> EditionFiles] }
            : n \in 0..MaxEditions }

RemoveAt(s, i) == [j \in 1..(Len(s) - 1) |-> IF j < i THEN s[j] ELSE s[j + 1]]

\* sorted(paths)
RECURSIVE SortByName(_)
SortByName(fs) ==
    IF fs = <<>> THEN <<>>
    ELSE LET i == CHOOSE i \in 1..Len(fs) :
                      \A j \in 1..Len(fs) : Rank(fs[i].name) <= Rank(fs[j].name)
         IN  <<fs[i]>> \o SortByName(RemoveAt(fs, i))

\* a _list_jsons that keeps the order of glob
list_jsons_unsorted(d) == d.glob

\* _list_jsons(dir_path)
list_jsons(d) == SortByName(d.glob)

\* the loop of _load_variant_confs_from_dir: a file that fails to load is
\* logged and skipped, the others are merged over base and tagged
RECURSIVE load_each(_, _)
load_each(base, paths) ==
    IF paths = <<>> THEN <<>>
    ELSE LET p == paths[1]
             merged == ("_variant" :> S(p.name)) @@ ("_variant_path" :> S(p.name))
                       @@ deep_merge(base, p.json)
         IN  (IF p.valid THEN <<merged>> ELSE <<>>) \o load_each(base, Tail(paths))

\* _load_variant_confs_from_dir(base, dir_path)
load_variant_confs_from_dir(base, d) ==
    IF ~d.exists THEN <<>> ELSE load_each(base, list_jsons(d))

\* generate_all_from_link: the single configuration used when no edition loads
default_edition(base) ==
    ("_variant" :> S("default"))
    @@ ("mode" :> S(GetS(base, "mode", KwRecorte)))
    @@ base

NoError == "none"
NoMeta == [title |-> None, image_url |-> "none", category |-> <<>>, error |-> "none"]

\* the results of articulo7.apply: the download failed, the page has no
\* og:image, the page has a title and an image
Metas ==
    { [title |-> None, image_url |-> "none", category |-> Articulo7,
       error |-> "Error al descargar"],
      [title |-> <<"H", "i">>, image_url |-> "none", category |-> Articulo7,
       error |-> "none"],
      [title |-> <<"H", "i">>, image_url |-> "https://img", category |-> Articulo7,
       error |-> "none"] }

\* the effect keyword of a call of generate_all_from_link: not given, or given
\* as handle_text_link gives it (the second token of the message, or None)
EffectArgs ==
    { [passed |-> FALSE, value |-> None],
      [passed |-> TRUE, value |-> None],
      [passed |-> TRUE, value |-> KwBlur] }

\* the captions sent with an image
MediaCaptions ==
    { None, <<>>, <<" ">>, <<"\t", " ">>,
      KwRecorte, <<"R", "e", "c", "o", "r", "t", "e", " ", "H", "i">>,
      KwBlur \o <<" ", "H", "i", " ">>,
      KwLogo, KwWatermark, KwBig \o <<" ", "H", "i">>, <<"H", "i">> }

InitEdition ==
    /\ entry = "none"
    /\ pcE = "start"
    /\ base_settings = CHOOSE b \in BaseSettings : TRUE
    /\ effect_kw = [passed |-> FALSE, value |-> None]
    /\ media_caption = None
    /\ image = NoImage
    /\ meta = NoMeta
    /\ fetches = 0
    /\ downloads = 0
    /\ dir = NoDir
    /\ loaded = <<>>
    /\ editions = <<>>
    /\ ed_i = 0
    /\ chosen = <<>>
    /\ composed = <<>>
    /\ failures = <<>>
    /\ results = <<>>
    /\ error = NoError

\* a caller invokes generate_all_from_link(url, base_settings[, effect=...]);
\* the function has no effect parameter, so the keyword is a TypeError
LinkCall ==
    /\ pcE = "start"
    /\ \E b \in BaseSettings, e \in EffectArgs :
        /\ base_settings' = b
        /\ effect_kw' = e
        /\ entry' = "link"
        /\ IF e.passed
           THEN pcE' = "raised" /\ error' = "TypeError"
           ELSE pcE' = "l_meta" /\ error' = error
    /\ UNCHANGED <<media_caption, image, meta, fetches, downloads, dir, loaded,
                   editions, ed_i, chosen, composed, failures, results,
                   captionVars, wrapVars, cropVars, mergeVars, settingsVars, universalVars, botVars>>

\* a FetchMeta that does not look at what the collaborator returned
FetchMetaNoCheck ==
    /\ pcE = "l_meta"
    /\ \E m \in Metas :
        /\ meta' = m
        /\ fetches' = fetches + 1
        /\ pcE' = "l_download"
    /\ UNCHANGED <<entry, base_settings, effect_kw, media_caption, image, downloads,
                   dir, loaded, editions, ed_i, chosen, composed, failures, results,
                   error, captionVars, wrapVars, cropVars, mergeVars, settingsVars, universalVars, botVars>>

\* meta = articulo7.apply(url, base_settings) and the two checks on it
FetchMeta ==
    /\ pcE = "l_meta"
    /\ \E m \in Metas :
        /\ meta' = m
        /\ fetches' = fetches + 1
        /\ IF m.error \notin {"none", ""}
           THEN pcE' = "raised" /\ error' = m.error
           ELSE IF m.image_url \in {"none", ""}
           THEN pcE' = "raised" /\ error' = "No se encontro imagen en el enlace."
           ELSE pcE' = "l_download" /\ error' = error
    /\ UNCHANGED <<entry, base_settings, effect_kw, media_caption, image, downloads,
                   dir, loaded, editions, ed_i, chosen, composed, failures, results,
                   captionVars, wrapVars, cropVars, mergeVars, settingsVars, universalVars, botVars>>

\* base_img = _load_image_from_url(image_url): an image, or the HTTP error
Download ==
    /\ pcE = "l_download"
    /\ downloads' = downloads + 1
    /\ \/ \E img \in Images :
            /\ image' = img
            /\ pcE' = "l_load"
            /\ error' = error
       \/ /\ image' = image
          /\ pcE' = "raised"
          /\ error' = "HTTPError"
    /\ UNCHANGED <<entry, base_settings, effect_kw, media_caption, meta, fetches,
                   dir, loaded, editions, ed_i, chosen, composed, failures, results,
                   captionVars, wrapVars, cropVars, mergeVars, settingsVars, universalVars, botVars>>

\* a LoadEditions without the fallback to the base settings
LoadEditionsNoDefault ==
    /\ pcE = "l_load"
    /\ \E d \in Dirs :
        /\ dir' = d
        /\ loaded' = load_variant_confs_from_dir(base_settings, d)
        /\ editions' = load_variant_confs_from_dir(base_settings, d)
    /\ ed_i' = 0
    /\ pcE' = "l_loop"
    /\ UNCHANGED <<entry, base_settings, effect_kw, media_caption, image, meta,
                   fetches, downloads, chosen, composed, failures, results, error,
                   captionVars, wrapVars, cropVars, mergeVars, settingsVars, universalVars, botVars>>

\* editions = _load_variant_confs_from_dir(...); if not editions: [tmp]
LoadEditions ==
    /\ pcE = "l_load"
    /\ \E d \in Dirs :
        /\ dir' = d
        /\ loaded' = load_variant_confs_from_dir(base_settings, d)
        /\ editions' = IF load_variant_confs_from_dir(base_settings, d) = <<>>
                       THEN <<default_edition(base_settings)>>
                       ELSE load_variant_confs_from_dir(base_settings, d)
    /\ ed_i' = 0
    /\ pcE' = "l_loop"
    /\ UNCHANGED <<entry, base_settings, effect_kw, media_caption, image, meta,
                   fetches, downloads, chosen, composed, failures, results, error,
                   captionVars, wrapVars, cropVars, mergeVars, settingsVars, universalVars, botVars>>

\* generate_all_from_link: title and category handed to the composer
link_title == IF meta.title \in {None, <<>>} THEN SinTitulo ELSE meta.title
link_category == IF meta.category \in {None, <<>>} THEN Articulo7 ELSE meta.category

\* a loop body without the try/except: the first failure leaves the function
ComposeEditionNoCatch ==
    /\ pcE = "l_loop"
    /\ ed_i < Len(editions)
    /\ LET ed_cfg == editions[ed_i + 1]
           variant_name == GetS(ed_cfg, "_variant", "variant")
           img == apply_edition(image, link_title, link_category, ed_cfg)
           fmt == GetS(GetD(ed_cfg, "output"), "format", "JPEG")
           out_bytes == save_to_bytes(img, fmt)
       IN  IF ~img.ok
           THEN /\ pcE' = "raised" /\ error' = img.exc
                /\ UNCHANGED <<composed, results, ed_i>>
           ELSE /\ composed' = Append(composed, [cfg |-> ed_cfg, canvas |-> img])
                /\ IF ~out_bytes.ok
                   THEN /\ pcE' = "raised" /\ error' = out_bytes.exc
                        /\ UNCHANGED <<results, ed_i>>
                   ELSE /\ results' = Append(results,
                                  [variant |-> variant_name, bytes |-> out_bytes,
                                   filename |-> <<variant_name, "jpg">>])
                        /\ ed_i' = ed_i + 1
                        /\ UNCHANGED <<pcE, error>>
    /\ UNCHANGED <<entry, base_settings, effect_kw, media_caption, image, meta,
                   fetches, downloads, dir, loaded, editions, chosen, failures,
                   captionVars, wrapVars, cropVars, mergeVars, settingsVars, universalVars, botVars>>

\* one iteration of `for ed_cfg in editions`: compose, encode, append; an
\* exception of the body is logged and the loop goes on
ComposeEdition ==
    /\ pcE = "l_loop"
    /\ ed_i < Len(editions)
    /\ LET ed_cfg == editions[ed_i + 1]
           variant_name == GetS(ed_cfg, "_variant", "variant")
           img == apply_edition(image, link_title, link_category, ed_cfg)
           fmt == GetS(GetD(ed_cfg, "output"), "format", "JPEG")
           out_bytes == save_to_bytes(img, fmt)
       IN  IF ~img.ok
           THEN /\ failures' = Append(failures, variant_name)
                /\ UNCHANGED <<composed, results>>
           ELSE /\ composed' = Append(composed, [cfg |-> ed_cfg, canvas |-> img])
                /\ IF ~out_bytes.ok
                   THEN /\ failures' = Append(failures, variant_name)
                        /\ UNCHANGED results
                   ELSE /\ results' = Append(results,
                                  [variant |-> variant_name, bytes |-> out_bytes,
                                   filename |-> <<variant_name, "jpg">>])
                        /\ UNCHANGED failures
    /\ ed_i' = ed_i + 1
    /\ UNCHANGED <<entry, pcE, base_settings, effect_kw, media_caption, image, meta,
                   fetches, downloads, dir, loaded, editions, chosen, error,
                   captionVars, wrapVars, cropVars, mergeVars, settingsVars, universalVars, botVars>>

\* return results
LinkReturn ==
    /\ pcE = "l_loop"
    /\ ed_i = Len(editions)
    /\ pcE' = "returned"
    /\ UNCHANGED <<entry, base_settings, effect_kw, media_caption, image, meta,
                   fetches, downloads, dir, loaded, editions, ed_i, chosen,
                   composed, failures, results, error,
                   captionVars, wrapVars, cropVars, mergeVars, settingsVars, universalVars, botVars>>

\* the image_bytes argument: the file as received, which decodes to image
image_bytes == [ok |-> TRUE, encoding |-> "original", img |-> image]

\* extra.get("text"), None shown as the empty text
ExtraText(extra) == IF extra = NoExtra THEN <<>> ELSE (CHOOSE p \in extra : TRUE)[2]

\* generate_from_media: raw_caption = (caption or "").strip()
raw_caption(c) == IF c = None THEN <<>> ELSE Strip(c)

\* the keyword a kind is compared with
KindText(kind) == IF kind = "recorte" THEN KwRecorte ELSE KwBlur

\* a title that is never the command caption: the extracted text or the placeholder
media_title_placeholder(extra, raw) ==
    IF ExtraText(extra) # <<>> THEN ExtraText(extra) ELSE SinTitulo

\* title = extra.get("text") or raw_caption or "Sin titulo"
media_title(extra, raw) ==
    IF ExtraText(extra) # <<>> THEN ExtraText(extra)
    ELSE IF raw # <<>> THEN raw
    ELSE SinTitulo

\* a caller invokes generate_from_media(image_bytes, caption, base_settings);
\* the image is decoded and brought to RGB or RGBA
MediaCall ==
    /\ pcE = "start"
    /\ \E c \in MediaCaptions, img \in Images, b \in BaseSettings :
        /\ media_caption' = c
        /\ image' = img
        /\ base_settings' = b
    /\ entry' = "media"
    /\ pcE' = "m_route"
    /\ UNCHANGED <<effect_kw, meta, fetches, downloads, dir, loaded, editions, ed_i,
                   chosen, composed, failures, results, error,
                   captionVars, wrapVars, cropVars, mergeVars, settingsVars, universalVars, botVars>>

\* the branches kind == "logo" | "watermark" | "bigtext" | "text": the
\* processor's image, encoded in base_settings' output format
MediaOverlay ==
    /\ pcE = "m_route"
    /\ LET ke == media_kind(media_caption)
           img == [size |-> image.size,
                   mode |-> IF ke.kind = "logo" THEN "RGB" ELSE image.mode,
                   effect |-> ke.kind,
                   text |-> IF ke.kind \in {"bigtext", "text"}
                            THEN Strip(ExtraText(ke.extra)) ELSE <<>>]
           out == save_to_bytes(img, GetS(GetD(base_settings, "output"), "format", "JPEG"))
       IN  /\ ke.kind \in {"logo", "watermark", "bigtext", "text"}
           /\ IF out.ok
              THEN /\ results' = <<[bytes |-> out, filename |-> <<ke.kind, "jpg">>]>>
                   /\ pcE' = "returned"
                   /\ error' = error
              ELSE /\ results' = results
                   /\ pcE' = "raised"
                   /\ error' = out.exc
    /\ UNCHANGED <<entry, base_settings, effect_kw, media_caption, image, meta,
                   fetches, downloads, dir, loaded, editions, ed_i, chosen,
                   composed, failures, captionVars, wrapVars, cropVars, mergeVars, settingsVars, universalVars, botVars>>

\* the first edition whose mode is kind, as a list of at most one element
first_with_mode(eds, kind) ==
    LET hits == SelectSeq(eds, LAMBDA ed : Lower(GetS(ed, "mode", <<>>)) = KindText(kind))
    IN  IF hits = <<>> THEN <<>> ELSE <<hits[1]>>

\* the branch kind in ("recorte", "blur"), up to `if not chosen: raise`
MediaChoose ==
    /\ pcE = "m_route"
    /\ media_kind(media_caption).kind \in {"recorte", "blur"}
    /\ \E d \in Dirs :
        /\ dir' = d
        /\ loaded' = load_variant_confs_from_dir(base_settings, d)
        /\ editions' = load_variant_confs_from_dir(base_settings, d)
        /\ chosen' = first_with_mode(load_variant_confs_from_dir(base_settings, d),
                                     media_kind(media_caption).kind)
        /\ IF first_with_mode(load_variant_confs_from_dir(base_settings, d),
                              media_kind(media_caption).kind) = <<>>
           THEN pcE' = "raised" /\ error' = "No existe una edicion con mode"
           ELSE pcE' = "m_compose" /\ error' = error
    /\ UNCHANGED <<entry, base_settings, effect_kw, media_caption, image, meta,
                   fetches, downloads, ed_i, composed, failures, results,
                   captionVars, wrapVars, cropVars, mergeVars, settingsVars, universalVars, botVars>>

\* the branch kind in ("recorte", "blur"), from the title to the return
MediaCompose ==
    /\ pcE = "m_compose"
    /\ LET ke == media_kind(media_caption)
           title == media_title(ke.extra, raw_caption(media_caption))
           category == Edicion
           img == apply_edition(image, title, category, chosen[1])
           out == save_to_bytes(img, GetS(GetD(chosen[1], "output"), "format", "JPEG"))
       IN  IF ~img.ok
           THEN /\ pcE' = "raised" /\ error' = img.exc
                /\ UNCHANGED <<composed, results>>
           ELSE /\ composed' = Append(composed, [cfg |-> chosen[1], canvas |-> img])
                /\ IF ~out.ok
                   THEN /\ pcE' = "raised" /\ error' = out.exc
                        /\ UNCHANGED results
                   ELSE /\ results' = <<[bytes |-> out, filename |-> <<ke.kind, "jpg">>]>>
                        /\ pcE' = "returned"
                        /\ error' = error
    /\ UNCHANGED <<entry, base_settings, effect_kw, media_caption, image, meta,
                   fetches, downloads, dir, loaded, editions, ed_i, chosen,
                   failures, captionVars, wrapVars, cropVars, mergeVars, settingsVars, universalVars, botVars>>

\* a fallback that writes the decoded image again
MediaOriginalReencoded ==
    /\ pcE = "m_route"
    /\ media_kind(media_caption).kind
           \notin {"logo", "watermark", "bigtext", "recorte", "blur", "text"}
    /\ results' = <<[bytes |-> save_to_bytes(image, "JPEG"),
                     filename |-> <<"original", "jpg">>]>>
    /\ pcE' = "returned"
    /\ UNCHANGED <<entry, base_settings, effect_kw, media_caption, image, meta,
                   fetches, downloads, dir, loaded, editions, ed_i, chosen,
                   composed, failures, error, captionVars, wrapVars, cropVars, mergeVars, settingsVars, universalVars, botVars>>

\* the fallback: return image_bytes, "original-....jpg"
MediaOriginal ==
    /\ pcE = "m_route"
    /\ media_kind(media_caption).kind
           \notin {"logo", "watermark", "bigtext", "recorte", "blur", "text"}
    /\ results' = <<[bytes |-> image_bytes, filename |-> <<"original", "jpg">>]>>
    /\ pcE' = "returned"
    /\ UNCHANGED <<entry, base_settings, effect_kw, media_caption, image, meta,
                   fetches, downloads, dir, loaded, editions, ed_i, chosen,
                   composed, failures, error, captionVars, wrapVars, cropVars, mergeVars, settingsVars, universalVars, botVars>>

IdleEdition ==
    /\ entry = "none"
    /\ pcE = "idle"
    /\ base_settings = CHOOSE b \in BaseSettings : TRUE
    /\ effect_kw = [passed |-> FALSE, value |-> None]
    /\ media_caption = None
    /\ image = NoImage
    /\ meta = NoMeta
    /\ fetches = 0
    /\ downloads = 0
    /\ dir = NoDir
    /\ loaded = <<>>
    /\ editions = <<>>
    /\ ed_i = 0
    /\ chosen = <<>>
    /\ composed = <<>>
    /\ failures = <<>>
    /\ results = <<>>
    /\ error = NoError

-----------------------------------------------------------------------------
(* generate_image.py _deep_merge and config_loader.py merge_dict            *)

MaxScalar == 2      \* the non-dict values of the dicts merged are 1..MaxScalar

MergeKeys == {"a", "b"}

\* the dicts over MergeKeys whose values are taken from vals
DictsOver(vals) == UNION { [ks -> vals] : ks \in SUBSET MergeKeys }

\* dicts of scalars, and dicts whose values are scalars or dicts of scalars
MergeScalars == {S(n) : n \in 1..MaxScalar}
FlatDicts == DictsOver(MergeScalars)
MergeDicts == DictsOver(MergeScalars \cup {D(d) : d \in FlatDicts})

\* merge_dict(base, override) of config_loader.py
RECURSIVE merge_dict(_, _)
merge_dict(base, override) ==
    [k \in DOMAIN base \cup DOMAIN override |->
        IF k \in DOMAIN override
        THEN IF IsDict(override[k]) /\ k \in DOMAIN base /\ IsDict(base[k])
             THEN D(merge_dict(base[k][2], override[k][2]))
             ELSE override[k]
        ELSE base[k]]

InitMerge ==
    /\ merge_base = <<>>
    /\ merge_override = <<>>
    /\ merge_out = <<>>
    /\ pcM = "input"

\* a caller invokes _deep_merge(base, override)
DeepMerge ==
    /\ pcM = "input"
    /\ \E b \in MergeDicts, o \in MergeDicts :
        /\ merge_base' = b
        /\ merge_override' = o
        /\ merge_out' = deep_merge(b, o)
    /\ pcM' = "deep"
    /\ UNCHANGED <<captionVars, wrapVars, cropVars, editionVars, settingsVars, universalVars, botVars>>

\* a caller invokes merge_dict(base, override)
MergeDict ==
    /\ pcM = "input"
    /\ \E b \in MergeDicts, o \in MergeDicts :
        /\ merge_base' = b
        /\ merge_override' = o
        /\ merge_out' = merge_dict(b, o)
    /\ pcM' = "dict"
    /\ UNCHANGED <<captionVars, wrapVars, cropVars, editionVars, settingsVars, universalVars, botVars>>

IdleMerge ==
    /\ merge_base = <<>>
    /\ merge_override = <<>>
    /\ merge_out = <<>>
    /\ pcM = "idle"

-----------------------------------------------------------------------------
(* generate_image.py: the configuration dicts as objects.  A dict object is *)
(* a function from keys to cells, a cell being a scalar S(x) or a reference *)
(* <<"r", i>> to the i-th object of the heap; assignments change objects in *)
(* place, so that sharing between configurations is visible                 *)

MaxRequests == 2    \* at most MaxRequests edition configurations are built

\* the value of the object at identity a
RECURSIVE Deref(_, _)
Deref(h, a) ==
    [k \in DOMAIN h[a] |->
        IF h[a][k][1] = "r" THEN D(Deref(h, h[a][k][2])) ELSE h[a][k]]

\* json.load: new objects holding the value v; the result is the heap and
\* the identity of the dict
RECURSIVE Store(_, _)
RECURSIVE StoreKeys(_, _, _, _)
StoreKeys(h, v, ks, obj) ==
    IF ks = {} THEN [h |-> Append(h, obj), a |-> Len(h) + 1]
    ELSE LET k == CHOOSE k \in ks : TRUE
         IN  IF IsDict(v[k])
             THEN LET r == Store(h, v[k][2])
                  IN  StoreKeys(r.h, v, ks \ {k}, (k :> <<"r", r.a>>) @@ obj)
             ELSE StoreKeys(h, v, ks \ {k}, (k :> v[k]) @@ obj)
Store(h, v) == StoreKeys(h, v, DOMAIN v, <<>>)

\* d[k] = cell
SetItem(h, a, k, cell) == [h EXCEPT ![a] = (k :> cell) @@ @]

RECURSIVE deep_merge_obj(_, _, _)
RECURSIVE deep_merge_items(_, _, _, _)

\* _deep_merge, the loop `for k, v in override.items()` over the keys ks left
deep_merge_items(h, out, o, ks) ==
    IF ks = {} THEN [h |-> h, a |-> out]
    ELSE LET k == CHOOSE k \in ks : TRUE
             v == h[o][k]
         IN  IF v[1] = "r" /\ k \in DOMAIN h[out] /\ h[out][k][1] = "r"
             THEN LET r == deep_merge_obj(h, h[out][k][2], v[2])
                  IN  deep_merge_items(SetItem(r.h, out, k, <<"r", r.a>>), out, o, ks \ {k})
             ELSE deep_merge_items(SetItem(h, out, k, v), out, o, ks \ {k})

\* a _deep_merge that writes into base instead of a copy of it
deep_merge_in_place(h, b, o) == deep_merge_items(h, b, o, DOMAIN h[o])

\* _deep_merge(base, override) on objects: out = dict(base) is a new object
\* with the cells of base, then the loop
deep_merge_obj(h, b, o) ==
    deep_merge_items(Append(h, h[b]), Len(h) + 1, o, DOMAIN h[o])

InitSettings ==
    /\ \E b \in BaseSettings :
        /\ heap = Store(<<>>, b).h
        /\ settings = Store(<<>>, b).a
        /\ settings0 = b
    /\ requests = <<>>

\* _load_variant_confs_from_dir, one file: override = _load_json(path),
\* merged = _deep_merge(base_settings, override), merged["_variant"] = ...
LoadEdition ==
    /\ settings # 0
    /\ Len(requests) < MaxRequests
    /\ \E f \in {f \in EditionFiles : f.valid} :
        LET name == FileNames[Len(requests) + 1]
            ov == Store(heap, f.json)
            mg == deep_merge_obj(ov.h, settings, ov.a)
        IN  /\ heap' = SetItem(SetItem(mg.h, mg.a, "_variant", S(name)),
                               mg.a, "_variant_path", S(name))
            /\ requests' = Append(requests,
                                  [cfg |-> mg.a, variant |-> name, override |-> f.json,
                                   seen |-> <<>>])
    /\ UNCHANGED <<settings, settings0, captionVars, wrapVars, cropVars, editionVars,
                   mergeVars, universalVars, botVars>>

\* generate_all_from_link without editions: tmp = dict(base_settings),
\* tmp["_variant"] = "default", tmp["mode"] = tmp.get("mode", "recorte")
DefaultEdition ==
    /\ settings # 0
    /\ Len(requests) < MaxRequests
    /\ LET tmp == Len(heap) + 1
           h1 == SetItem(Append(heap, heap[settings]), tmp, "_variant", S("default"))
           mode == IF "mode" \in DOMAIN h1[tmp] THEN h1[tmp]["mode"] ELSE S(KwRecorte)
       IN  /\ heap' = SetItem(h1, tmp, "mode", mode)
           /\ requests' = Append(requests,
                                 [cfg |-> tmp, variant |-> "default",
                                  override |-> ("mode" :> mode), seen |-> <<>>])
    /\ UNCHANGED <<settings, settings0, captionVars, wrapVars, cropVars, editionVars,
                   mergeVars, universalVars, botVars>>

\* a request composes with its configuration: _apply_edition reads it
ReadEdition ==
    /\ \E i \in 1..Len(requests) :
        /\ requests[i].seen = <<>>
        /\ requests' = [requests EXCEPT ![i].seen = <<Deref(heap, requests[i].cfg)>>]
    /\ UNCHANGED <<heap, settings, settings0, captionVars, wrapVars, cropVars,
                   editionVars, mergeVars, universalVars, botVars>>

IdleSettings ==
    /\ heap = <<>>
    /\ settings = 0
    /\ settings0 = <<>>
    /\ requests = <<>>

-----------------------------------------------------------------------------
(* processors/universal.py, logo.py, watermark.py, big_text.py.  A buffer   *)
(* is a sequence of bytes, each written as its ASCII character or as two    *)
(* hex digits; an image is an object [mode, marks], marks being what was    *)
(* drawn on it and the mode of the canvas it was drawn on                   *)

Pad(n) == [i \in 1..n |-> "."]

\* s[:n]
Take(s, n) == SubSeq(s, 1, IF Len(s) < n THEN Len(s) ELSE n)

\* t in s, for byte strings
Contains(s, t) == \E i \in 1..(Len(s) - Len(t) + 1) : SubSeq(s, i, i + Len(t) - 1) = t

Riff == <<"R", "I", "F", "F">>
Avi == <<"A", "V", "I", " ">>
Ftyp == <<"f", "t", "y", "p">>

video_signatures ==
    { <<"00", "00", "00", "18">> \o Ftyp \o <<"m", "p", "4">>,
      <<"00", "00", "00", "20">> \o Ftyp \o <<"m", "p", "4">>,
      <<"00", "00", "00", "1c">> \o Ftyp \o <<"i", "s", "o", "m">>,
      <<"00", "00", "00", "20">> \o Ftyp \o <<"i", "s", "o", "m">>,
      <<"00", "00", "00", "14">> \o Ftyp \o <<"q", "t">>,
      <<"1a", "E", "df", "a3">>,
      <<"F", "L", "V">>,
      <<"00", "00", "01", "b3">>,
      <<"00", "00", "01", "ba">>,
      Riff }

ftyp_indicators ==
    { <<"m", "p", "4">>, <<"i", "s", "o", "m">>, <<"M", "4", "V">>,
      <<"m", "p", "4", "1">>, <<"m", "p", "4", "2">>, <<"a", "v", "c", "1">>,
      <<"q", "t">> }

\* is_video_file(file_bytes)
is_video_file(file_bytes) ==
    LET file_start == Take(file_bytes, 32)
    IN  \/ \E signature \in video_signatures : StartsWith(file_start, signature)
        \/ /\ Contains(Take(file_start, 16), Ftyp)
           /\ \E indicator \in ftyp_indicators : Contains(file_start, indicator)
        \/ StartsWith(file_start, Riff) /\ Contains(Take(file_bytes, 64), Avi)

\* the files the bot receives: the bytes, and the mode PIL decodes them to
\* ("none" when PIL cannot identify the file)
MediaFiles ==
    { [bytes |-> <<"ff", "d8", "ff", "e0">> \o Pad(30), mode |-> "RGB"],
      [bytes |-> <<"89", "P", "N", "G">> \o Pad(30), mode |-> "RGBA"],
      [bytes |-> <<"G", "I", "F", "8", "9", "a">> \o Pad(30), mode |-> "P"],
      [bytes |-> Riff \o Pad(4) \o <<"W", "E", "B", "P", "V", "P", "8", " ">> \o Pad(30),
       mode |-> "RGB"],
      [bytes |-> Riff \o Pad(4) \o <<"W", "E", "B", "P", "V", "P", "8", "L">> \o Pad(30),
       mode |-> "RGBA"],
      [bytes |-> Riff \o Pad(4) \o Avi \o <<"L", "I", "S", "T">> \o Pad(30), mode |-> "none"],
      [bytes |-> Riff \o Pad(4) \o <<"W", "A", "V", "E">> \o Pad(58) \o Avi, mode |-> "none"],
      [bytes |-> <<"00", "00", "00", "18">> \o Ftyp \o <<"m", "p", "4", "2">> \o Pad(30),
       mode |-> "none"],
      [bytes |-> <<"00", "00", "00", "1c">> \o Ftyp \o <<"M", "4", "V", " ">> \o Pad(30),
       mode |-> "none"],
      [bytes |-> <<"00", "00", "00", "18">> \o Ftyp \o <<"h", "e", "i", "c">> \o Pad(30),
       mode |-> "none"],
      [bytes |-> <<"F", "L">>, mode |-> "none"] }

NoFile == [bytes |-> <<>>, mode |-> "none"]

OutputFormats == {"JPEG", "jpeg", "PNG"}

NoApplied == [proc |-> "none", kind |-> "none", text |-> <<>>, input |-> 0,
              before |-> <<>>, out |-> 0]

\* a new image object: Image.copy, Image.convert, Image.open
Alloc(h, img) == [h |-> Append(h, img), a |-> Len(h) + 1]

\* ensure_rgba / ensure_rgb: the image itself when it has the mode already
ensure_mode(h, a, mode) ==
    IF h[a].mode = mode THEN [h |-> h, a |-> a]
    ELSE Alloc(h, [h[a] EXCEPT !.mode = mode])

\* alpha_composite / ImageDraw text on the object a, in place
Draw(h, a, what) ==
    [h EXCEPT ![a].marks = Append(@, [op |-> what, canvas |-> h[a].mode])]

\* a logo.apply that composites on its base without copying it
logo_apply_on_base(h, img, overlay_ok) ==
    LET base == ensure_mode(h, img, "RGBA")
    IN  IF ~overlay_ok THEN [ok |-> FALSE, h |-> base.h, exc |-> "FileNotFoundError"]
        ELSE LET r == ensure_mode(Draw(base.h, base.a, "logo"), base.a, "RGB")
             IN  [ok |-> TRUE, h |-> r.h, a |-> r.a]

\* logo.apply(img, config): base = ensure_rgba(img), the overlay opened,
\* out = base.copy(), out.alpha_composite(overlay), return ensure_rgb(out)
logo_apply(h, img, overlay_ok) ==
    LET base == ensure_mode(h, img, "RGBA")
    IN  IF ~overlay_ok THEN [ok |-> FALSE, h |-> base.h, exc |-> "FileNotFoundError"]
        ELSE LET out == Alloc(base.h, base.h[base.a])
                 r == ensure_mode(Draw(out.h, out.a, "logo"), out.a, "RGB")
             IN  [ok |-> TRUE, h |-> r.h, a |-> r.a]

\* watermark.apply(base_img, cfg): the watermark opened, result =
\* base_img.convert("RGBA"), result.alpha_composite(...), return
\* result.convert(base_img.mode)
watermark_apply(h, base_img, overlay_ok) ==
    IF ~overlay_ok THEN [ok |-> FALSE, h |-> h, exc |-> "FileNotFoundError"]
    ELSE LET result == Alloc(h, [h[base_img] EXCEPT !.mode = "RGBA"])
             h1 == Draw(result.h, result.a, "watermark")
             r == Alloc(h1, [h1[result.a] EXCEPT !.mode = h[base_img].mode])
         IN  [ok |-> TRUE, h |-> r.h, a |-> r.a]

\* big_text.apply(base_img, caption_text, cfg): img = base_img.copy(), the
\* text drawn on img
big_text_apply(h, base_img, text) ==
    LET img == Alloc(h, h[base_img])
    IN  [ok |-> TRUE, h |-> Draw(img.h, img.a, "big_text"), a |-> img.a]

\* apply_effects_to_image and process_image: classify(raw_caption) and the
\* override for captions starting with "bigtext" or "big "
universal_kind(c) ==
    LET raw == raw_caption(c)
    IN  IF \/ StartsWith(Lower(raw), KwBig \o <<"t", "e", "x", "t">>)
           \/ StartsWith(Lower(raw), KwBig \o <<" ">>)
        THEN [kind |-> "bigtext", extra |-> TextExtra(RestText(raw))]
        ELSE classify(raw)

\* apply_effects_to_image(base_image, caption, config): result =
\* base_image.copy(), then the processor of the kind; the outcome with the
\* processor called, its input as it was, and its result
apply_effects_to_image(h, base_image, c, overlay_ok) ==
    LET ke == universal_kind(c)
        result == Alloc(h, h[base_image])
        text == Strip(ExtraText(ke.extra))
        proc == IF ke.kind \in {"logo", "watermark"} THEN ke.kind
                ELSE IF ke.kind \in {"bigtext", "text"} /\ text # <<>> THEN "big_text"
                ELSE "none"
        r == CASE proc = "logo" -> logo_apply(result.h, result.a, overlay_ok)
               [] proc = "watermark" -> watermark_apply(result.h, result.a, overlay_ok)
               [] proc = "big_text" -> big_text_apply(result.h, result.a, text)
               [] OTHER -> [ok |-> TRUE, h |-> result.h, a |-> result.a]
    IN  r @@
        [call |-> [proc |-> proc, kind |-> ke.kind,
                   text |-> IF proc = "big_text" THEN text ELSE <<>>,
                   input |-> result.a, before |-> result.h[result.a],
                   out |-> IF r.ok THEN r.a ELSE 0]]

\* generate_from_media, the branch taken for a caption: the processor
\* called, the text it is given, and whether the bytes received are returned
media_effect(c) ==
    LET ke == media_kind(c)
        text == Strip(ExtraText(ke.extra))
    IN  CASE ke.kind \in {"logo", "watermark"} ->
               [kind |-> ke.kind, proc |-> ke.kind, text |-> <<>>, original |-> FALSE]
          [] ke.kind = "bigtext" ->
               [kind |-> ke.kind, proc |-> "big_text", text |-> text, original |-> FALSE]
          [] ke.kind \in {"recorte", "blur"} ->
               [kind |-> ke.kind, proc |-> "apply_edition",
                text |-> media_title(ke.extra, raw_caption(c)), original |-> FALSE]
          [] ke.kind = "text" ->
               [kind |-> ke.kind, proc |-> "free_text", text |-> text, original |-> FALSE]
          [] OTHER ->
               [kind |-> ke.kind, proc |-> "none", text |-> <<>>, original |-> TRUE]

InitUniversal ==
    /\ media_bytes = NoFile
    /\ media_cap = None
    /\ output_format = "JPEG"
    /\ pcU = "start"
    /\ imgs = <<>>
    /\ applied = NoApplied
    /\ media_result = <<>>

\* process_media(media_bytes, caption, config) is called and detects the
\* media type
ProcessMedia ==
    /\ pcU = "start"
    /\ \E f \in MediaFiles, c \in MediaCaptions, fmt \in OutputFormats :
        /\ media_bytes' = f
        /\ media_cap' = c
        /\ output_format' = fmt
        /\ pcU' = IF is_video_file(f.bytes) THEN "video" ELSE "image"
    /\ UNCHANGED <<imgs, applied, media_result, captionVars, wrapVars, cropVars,
                   editionVars, mergeVars, settingsVars, botVars>>

\* process_video: the effects applied to a dummy frame, the overlay laid on
\* the video by ffmpeg; the original video when ffmpeg fails
ProcessVideo ==
    /\ pcU = "video"
    /\ \E overlay_ok \in BOOLEAN, ffmpeg_ok \in BOOLEAN :
        LET dummy_base == Alloc(<<>>, [mode |-> "RGB", marks |-> <<>>])
            e == apply_effects_to_image(dummy_base.h, dummy_base.a, media_cap, overlay_ok)
        IN  /\ imgs' = e.h
            /\ applied' = e.call
            /\ IF ~e.ok
               THEN pcU' = "raised" /\ media_result' = <<e.exc>>
               ELSE /\ pcU' = "returned"
                    /\ media_result' =
                         IF ffmpeg_ok
                         THEN <<[pipeline |-> "video", bytes |-> "processed",
                                 filename |-> <<universal_kind(media_cap).kind, "mp4">>]>>
                         ELSE <<[pipeline |-> "video", bytes |-> "original",
                                 filename |-> <<"original_video", "mp4">>]>>
    /\ UNCHANGED <<media_bytes, media_cap, output_format, captionVars, wrapVars,
                   cropVars, editionVars, mergeVars, settingsVars, botVars>>

\* process_image, the head: Image.open, and convert("RGB") when the mode is
\* neither RGB nor RGBA
open_base(mode) ==
    IF mode \in {"RGB", "RGBA"} THEN Alloc(<<>>, [mode |-> mode, marks |-> <<>>])
    ELSE Alloc(<<[mode |-> mode, marks |-> <<>>]>>, [mode |-> "RGB", marks |-> <<>>])

\* process_image, the tail: the file name, the result converted to RGB when
\* it is RGBA and the format JPEG, and saved
save_result(e, c, fmt) ==
    IF e.h[e.a].mode = "RGBA" /\ UpperFormat(fmt) = "JPEG"
    THEN [h |-> Append(e.h, [e.h[e.a] EXCEPT !.mode = "RGB"]),
          result |-> [pipeline |-> "image",
                      bytes |-> [encoding |-> UpperFormat(fmt),
                                 img |-> [e.h[e.a] EXCEPT !.mode = "RGB"]],
                      filename |-> <<universal_kind(c).kind, "jpg">>]]
    ELSE [h |-> e.h,
          result |-> [pipeline |-> "image",
                      bytes |-> [encoding |-> UpperFormat(fmt), img |-> e.h[e.a]],
                      filename |-> <<universal_kind(c).kind, "jpg">>]]

\* process_image: the image decoded and brought to RGB or RGBA, the effects
\* applied, the result saved
ProcessImage ==
    /\ pcU = "image"
    /\ IF media_bytes.mode = "none"
       THEN /\ pcU' = "raised"
            /\ media_result' = <<"UnidentifiedImageError">>
            /\ UNCHANGED <<imgs, applied>>
       ELSE \E overlay_ok \in BOOLEAN :
              \E e \in {apply_effects_to_image(open_base(media_bytes.mode).h,
                                                open_base(media_bytes.mode).a,
                                                media_cap, overlay_ok)} :
                 /\ applied' = e.call
                 /\ IF e.ok
                    THEN /\ imgs' = save_result(e, media_cap, output_format).h
                         /\ media_result' = <<save_result(e, media_cap, output_format).result>>
                         /\ pcU' = "returned"
                    ELSE /\ imgs' = e.h
                         /\ media_result' = <<e.exc>>
                         /\ pcU' = "raised"
    /\ UNCHANGED <<media_bytes, media_cap, output_format, captionVars, wrapVars,
                   cropVars, editionVars, mergeVars, settingsVars, botVars>>

IdleUniversal ==
    /\ media_bytes = NoFile
    /\ media_cap = None
    /\ output_format = "JPEG"
    /\ pcU = "idle"
    /\ imgs = <<>>
    /\ applied = NoApplied
    /\ media_result = <<>>

-----------------------------------------------------------------------------
(* whatsapp_bot.py: the webhook, classify_message and the media handlers *)

MaxBodyTokens == 2  \* a text body is at most MaxBodyTokens tokens

Subscribe == <<"s", "u", "b", "s", "c", "r", "i", "b", "e">>
Secret == <<"s", "3">>

\* the hub.mode and hub.verify_token a request may carry, None when absent
HubModes == {None, Subscribe, <<"x">>}
HubTokens == {None, <<>>, Secret, <<"w">>}

\* VERIFY_TOKEN: apply_env_overrides puts the environment variable, if set,
\* over the configured value, and the module takes that value or, when it is
\* None or empty, the environment variable
configured_verify_token(cfg, env) ==
    LET w == IF env # None THEN env ELSE cfg
    IN  IF w \notin {None, <<>>} THEN w ELSE env

NoRequest == [mode |-> None, token |-> None, challenge |-> None]
NoResponse == [status |-> 0, body |-> None]
NoMessage == [type |-> "none", body |-> <<>>]
NoClass == [kind |-> "none", url |-> None, effect |-> None]

Http == <<"h", "t", "t", "p">>
Link == Http \o <<"s", ":", "/", "/", "a">>

\* the tokens text bodies are built from
BodyTokens ==
    { Link, Http \o <<":", "/", "/", "c">>, <<"x">> \o Link, Http \o <<"s", ":", "/", "/">>,
      <<"m", "i", "r", "a">>, KwBlur }

\* the messages the webhook receives
Messages ==
    { [type |-> "text", body |-> Join(ws)] :
        ws \in UNION { [1..n -> BodyTokens] : n \in 0..MaxBodyTokens } }
    \cup { [type |-> "text", body |-> <<" ">> \o Link \o <<"\t", " ">> \o KwBlur \o <<" ">>] }
    \cup { [type |-> t, body |-> <<>>] : t \in {"image", "video", "audio"} }

\* URL_RE matches at position i of s: http, an optional s, ://, and at least
\* one character that is not whitespace
MatchesAt(s, i) ==
    LET t == Drop(s, i - 1)
        u == IF StartsWith(t, Http \o <<"s">>) THEN Drop(t, 5) ELSE Drop(t, 4)
    IN  /\ StartsWith(t, Http)
        /\ StartsWith(u, <<":", "/", "/">>)
        /\ Len(u) > 3
        /\ ~IsSpace(u[4])

\* URL_RE.search(body): the span [start, end] of the first match, <<>> if none
url_match(body) ==
    LET hits == {i \in 1..Len(body) : MatchesAt(body, i)}
    IN  IF hits = {} THEN <<>>
        ELSE LET i == Min(hits)
             IN  <<i, i - 1 + LeadingToken(Drop(body, i - 1))>>

\* classify_message(msg)
classify_message(msg) ==
    IF msg.type = "text"
    THEN LET body == Strip(msg.body)
             parts == Split(body)
         IN  IF url_match(body) # <<>>
             THEN [kind |-> "text_link", url |-> parts[1],
                   effect |-> IF Len(parts) > 1 THEN parts[2] ELSE None]
             ELSE [kind |-> "text", url |-> None, effect |-> None]
    ELSE IF msg.type \in {"image", "video"}
    THEN [kind |-> msg.type, url |-> None, effect |-> None]
    ELSE [kind |-> "unsupported", url |-> None, effect |-> None]

\* what a call to the messaging API or to process_media may do: succeed, be
\* answered with a status >= 300, or raise
Outcomes == {"ok", "rejected", "raised"}

\* handle_image / handle_video: the calls of the try block, in order
HandlerSteps ==
    <<"send_text", "get_media_url", "download_media", "process_media", "upload_media",
      "send_media">>

\* what handle_text_link may deliver after its progress text: the message or
\* the images of generate_all_from_link, or an error text
LinkDeliveries ==
    { <<>>, <<"progress">>, <<"progress", "text">>, <<"progress", "media">>,
      <<"progress", "media", "media">>, <<"progress", "error">>, <<"error">> }

InitBot ==
    /\ \E cfg \in {None, <<>>, Secret}, env \in {None, <<>>, Secret} :
        verify_token = configured_verify_token(cfg, env)
    /\ request = NoRequest
    /\ response = NoResponse
    /\ message = NoMessage
    /\ classified = NoClass
    /\ pcB = "ready"
    /\ calls = <<>>
    /\ delivered = <<>>

\* GET /webhook
Verify ==
    /\ pcB = "ready"
    /\ \E mode \in HubModes, token \in HubTokens :
        /\ request' = [mode |-> mode, token |-> token, challenge |-> <<"c">>]
        /\ response' = IF mode = Subscribe /\ token = verify_token
                       THEN [status |-> 200, body |-> <<"c">>]
                       ELSE [status |-> 403, body |-> <<"F", "o", "r", "b", "i", "d", "d", "e", "n">>]
    /\ pcB' = "answered"
    /\ UNCHANGED <<verify_token, message, classified, calls, delivered, captionVars,
                   wrapVars, cropVars, editionVars, mergeVars, settingsVars,
                   universalVars>>

\* POST /webhook: the message classified; a plain text or an unsupported
\* message is answered with a text, the others go to their handler
Inbound ==
    /\ pcB = "ready"
    /\ \E m \in Messages, o \in Outcomes :
        /\ message' = m
        /\ classified' = classify_message(m)
        /\ IF classify_message(m).kind \in {"text", "unsupported"}
           THEN /\ calls' = <<<<"send_text", o>>>>
                /\ delivered' = IF o = "ok" THEN <<"help">> ELSE <<>>
                /\ pcB' = IF o = "raised" THEN "crashed" ELSE "answered"
           ELSE /\ calls' = <<>>
                /\ delivered' = <<>>
                /\ pcB' = IF classify_message(m).kind = "text_link" THEN "link" ELSE "handler"
    /\ UNCHANGED <<verify_token, request, response, captionVars, wrapVars, cropVars,
                   editionVars, mergeVars, settingsVars, universalVars>>

\* handle_text_link
HandleTextLink ==
    /\ pcB = "link"
    /\ \E d \in LinkDeliveries : delivered' = d
    /\ pcB' = "answered"
    /\ UNCHANGED <<verify_token, request, response, message, classified, calls,
                   captionVars, wrapVars, cropVars, editionVars, mergeVars,
                   settingsVars, universalVars>>

\* handle_image / handle_video: the next call of the try block.  A helper
\* answered with a status >= 300 returns None and the handler goes on to its
\* error text; wa_send_text and wa_send_*_by_media_id only log such an answer
HandlerStep ==
    /\ pcB = "handler"
    /\ \E o \in Outcomes :
        LET name == HandlerSteps[Len(calls) + 1]
        IN  /\ name = "process_media" => o # "rejected"
            /\ calls' = Append(calls, <<name, o>>)
            /\ delivered' = IF o = "ok" /\ name = "send_text" THEN Append(delivered, "progress")
                            ELSE IF o = "ok" /\ name = "send_media" THEN Append(delivered, "media")
                            ELSE delivered
            /\ pcB' = IF o = "raised" THEN "except"
                      ELSE IF o = "rejected"
                              /\ name \in {"get_media_url", "download_media", "upload_media"}
                      THEN "error_text"
                      ELSE IF name = "send_media" THEN "answered"
                      ELSE "handler"
    /\ UNCHANGED <<verify_token, request, response, message, classified, captionVars,
                   wrapVars, cropVars, editionVars, mergeVars, settingsVars,
                   universalVars>>

\* handle_image / handle_video: wa_send_text with the error, from the try
\* block (and return) or from an except clause
ErrorText ==
    /\ pcB \in {"error_text", "except"}
    /\ \E o \in Outcomes :
        /\ calls' = Append(calls, <<"send_error_text", o>>)
        /\ delivered' = IF o = "ok" THEN Append(delivered, "error") ELSE delivered
        /\ pcB' = IF o # "raised" THEN "answered"
                  ELSE IF pcB = "error_text" THEN "except"
                  ELSE "crashed"
    /\ UNCHANGED <<verify_token, request, response, message, classified, captionVars,
                   wrapVars, cropVars, editionVars, mergeVars, settingsVars,
                   universalVars>>

IdleBot ==
    /\ verify_token = None
    /\ request = NoRequest
    /\ response = NoResponse
    /\ message = NoMessage
    /\ classified = NoClass
    /\ pcB = "idle"
    /\ calls = <<>>
    /\ delivered = <<>>

-----------------------------------------------------------------------------
(* Specifications *)

NextCaption == Classify \/ MediaClassify
InitSpecCaption ==
    /\ InitCaption
    /\ IdleWrap
    /\ IdleCrop
    /\ IdleEdition
    /\ IdleMerge
    /\ IdleSettings
    /\ IdleUniversal
    /\ IdleBot
SpecCaption == InitSpecCaption /\ [][NextCaption]_vars

NextWrap ==
    WrapStart \/ PackWord \/ CloseLine \/ ForceWord \/ LoopExit \/ WrapFinish
InitSpecWrap ==
    /\ IdleCaption
    /\ InitWrap
    /\ IdleCrop
    /\ IdleEdition
    /\ IdleMerge
    /\ IdleSettings
    /\ IdleUniversal
    /\ IdleBot
SpecWrap == InitSpecWrap /\ [][NextWrap]_vars

\* the function runs to completion once called: its steps are not suspended
FairSpecWrap == SpecWrap /\ WF_vars(NextWrap)

NextCrop == CropCenterAspect
InitSpecCrop ==
    /\ IdleCaption
    /\ IdleWrap
    /\ InitCrop
    /\ IdleEdition
    /\ IdleMerge
    /\ IdleSettings
    /\ IdleUniversal
    /\ IdleBot
SpecCrop == InitSpecCrop /\ [][NextCrop]_vars

NextEdition ==
    LinkCall \/ FetchMeta \/ Download \/ LoadEditions \/ ComposeEdition
    \/ LinkReturn \/ MediaCall \/ MediaOverlay \/ MediaChoose \/ MediaCompose
    \/ MediaOriginal
InitSpecEdition ==
    /\ IdleCaption
    /\ IdleWrap
    /\ IdleCrop
    /\ InitEdition
    /\ IdleMerge
    /\ IdleSettings
    /\ IdleUniversal
    /\ IdleBot
SpecEdition == InitSpecEdition /\ [][NextEdition]_vars

NextMerge == DeepMerge \/ MergeDict
InitSpecMerge ==
    /\ IdleCaption
    /\ IdleWrap
    /\ IdleCrop
    /\ IdleEdition
    /\ InitMerge
    /\ IdleSettings
    /\ IdleUniversal
    /\ IdleBot
SpecMerge == InitSpecMerge /\ [][NextMerge]_vars

NextSettings == LoadEdition \/ DefaultEdition \/ ReadEdition
InitSpecSettings ==
    /\ IdleCaption
    /\ IdleWrap
    /\ IdleCrop
    /\ IdleEdition
    /\ IdleMerge
    /\ InitSettings
    /\ IdleUniversal
    /\ IdleBot
SpecSettings == InitSpecSettings /\ [][NextSettings]_vars

NextUniversal == ProcessMedia \/ ProcessVideo \/ ProcessImage
InitSpecUniversal ==
    /\ IdleCaption
    /\ IdleWrap
    /\ IdleCrop
    /\ IdleEdition
    /\ IdleMerge
    /\ IdleSettings
    /\ InitUniversal
    /\ IdleBot
SpecUniversal == InitSpecUniversal /\ [][NextUniversal]_vars

NextBot == Verify \/ Inbound \/ HandleTextLink \/ HandlerStep \/ ErrorText
InitSpecBot ==
    /\ IdleCaption
    /\ IdleWrap
    /\ IdleCrop
    /\ IdleEdition
    /\ IdleMerge
    /\ IdleSettings
    /\ IdleUniversal
    /\ InitBot
SpecBot == InitSpecBot /\ [][NextBot]_vars

-----------------------------------------------------------------------------
(* Claims about classify *)

Returned == pcC \in {"classified", "routed"}

LogoPlease == KwLogo \o <<" ">> \o <<"p", "l", "e", "a", "s", "e">>
Bigger == KwBig \o <<"g", "e", "r">>
BigSp == KwBig \o <<" ">>

\* the kind the ordered rules give for a trimmed, lower-cased caption t
RuleKind(t) ==
    IF t = KwLogo THEN "logo"
    ELSE IF t = KwWatermark THEN "watermark"
    ELSE IF StartsWith(t, KwBig) THEN "bigtext"
    ELSE IF StartsWith(t, KwRecorte) THEN "recorte"
    ELSE IF StartsWith(t, KwBlur) THEN "blur"
    ELSE "text"

\* C1: for a caption that is non-empty after trimming, classify returns the
\* kind of the first matching rule (logo and watermark exact, then the
\* prefixes big, recorte, blur, otherwise free text); "logo please" is free
\* text and "bigger" is big text.
C1_RuleOrder ==
    (pcC = "classified" /\ caption # None /\ Strip(caption) # <<>>) =>
        /\ cls.kind = RuleKind(Lower(Strip(caption)))
        /\ (caption = LogoPlease => cls.kind = "text")
        /\ (caption = Bigger => cls.kind = "bigtext")

C1_Witness ==
    pcC = "classified" /\ caption = LogoPlease /\ cls.kind = "text"

\* C2: classify("big " + T) is big text whose text is T trimmed; a single
\* token starting with "big" gives big text with the empty text.  Checked on
\* classify and on the normalisation of generate_from_media.
C2_BigText ==
    (Returned /\ caption # None) =>
        /\ StartsWith(caption, BigSp) =>
              cls = [kind |-> "bigtext",
                     extra |-> TextExtra(Strip(Drop(caption, Len(BigSp))))]
        /\ (StartsWith(caption, KwBig) /\ \A i \in 1..Len(caption) : ~IsSpace(caption[i])) =>
              cls = [kind |-> "bigtext", extra |-> TextExtra(<<>>)]

C2_Witness ==
    /\ pcC = "classified"
    /\ caption = BigSp \o <<"H", "i", " ">>
    /\ cls = [kind |-> "bigtext", extra |-> TextExtra(<<"H", "i">>)]

\* C3: classify returns unknown with empty parameters for every caption that
\* is absent, empty or empty after trimming.
C3_BlankIsUnknown ==
    (pcC = "classified" /\ (caption = None \/ Strip(caption) = <<>>)) =>
        cls = [kind |-> "unknown", extra |-> NoExtra]

\* C4 as stated: for recorte and blur, classify extracts the text after the
\* first token like it does for big text.
C4_RecorteBlurExtract ==
    (pcC = "classified" /\ cls.kind \in {"recorte", "blur"}) =>
        cls.extra = TextExtra(RestText(caption))

\* C4 as amended: for recorte and blur, classify returns empty parameters,
\* whatever follows the first token.
C4_RecorteBlurNoExtra ==
    (Returned /\ caption # None
       /\ (StartsWith(Lower(Strip(caption)), KwRecorte)
           \/ StartsWith(Lower(Strip(caption)), KwBlur))) =>
        /\ cls.kind = (IF StartsWith(Lower(Strip(caption)), KwRecorte)
                       THEN "recorte" ELSE "blur")
        /\ cls.extra = NoExtra

C4_Witness ==
    /\ pcC = "classified"
    /\ caption = KwRecorte \o <<" ", "H", "i", " ">>
    /\ cls = [kind |-> "recorte", extra |-> NoExtra]

-----------------------------------------------------------------------------
(* Claims about get_title_lines *)

Width(text) == text_width(font, tracking, text)

\* C5: get_title_lines returns at most max_lines lines.
C5_AtMostMaxLines ==
    pcW = "done" => Len(lines) <= max_lines

C5_Witness ==
    /\ pcW = "done"
    /\ max_lines = 2
    /\ Len(words) = 3
    /\ index < Len(words)
    /\ Len(lines) = 2

\* C6: every returned line is at most max_width wide, except a line that is
\* a single word of the title which alone is wider than max_width (stated for
\* max_width >= 0, where the empty line fits).
C6_LinesFit ==
    (pcW = "done" /\ max_width >= 0) =>
        \A i \in 1..Len(lines) :
            \/ Width(lines[i]) <= max_width
            \/ \E k \in 1..Len(words) : lines[i] = words[k]

\* C7 as stated: when the words are exhausted, the result is padded to
\* exactly max_lines entries.
C7_PadsToMaxLines ==
    (pcW = "done" /\ index = Len(words)) => Len(lines) = max_lines

\* C7 as amended: when the words are exhausted (and max_lines >= 1), exactly
\* one empty line follows the packed lines, which hold every word; the result
\* has at most max_lines entries.
C7_OneEmptyLine ==
    (pcW = "done" /\ index = Len(words) /\ max_lines >= 1) =>
        /\ Len(lines) >= 1
        /\ Len(lines) <= max_lines
        /\ lines[Len(lines)] = <<>>
        /\ \A i \in 1..(Len(lines) - 1) : lines[i] # <<>>
        /\ Split(Join(lines)) = words

C7_Witness ==
    /\ pcW = "done"
    /\ max_lines = 3
    /\ Len(words) = 1
    /\ lines = <<words[1], <<>>>>

\* the words of the remainder whose prefix of k words fits with the ellipsis
FitsWithEllipsis(k) ==
    Width(Join(SubSeq(remaining_words, 1, k)) \o Ellipsis) <= max_width

\* C8: when the remainder does not fit on the last permitted line, the last
\* line is the longest non-empty word-prefix of the remainder that fits with
\* "...", followed by "..."; if there is none, it is the full remainder.
C8_EllipsisOrFull ==
    (pcW = "done" /\ max_lines >= 1 /\ max_width >= 0 /\ index < Len(words)
       /\ Width(last_line) > max_width) =>
        LET fit == {k \in 1..Len(remaining_words) : FitsWithEllipsis(k)}
        IN  /\ Len(lines) = max_lines
            /\ lines[max_lines] =
                 IF fit # {}
                 THEN Join(SubSeq(remaining_words, 1,
                                  CHOOSE k \in fit : \A j \in fit : j <= k)) \o Ellipsis
                 ELSE last_line

\* C9: get_title_lines terminates, also when a word is wider than max_width
\* or max_width <= 0; every loop iteration consumes a word or closes a line.
C9_Terminates ==
    /\ <>(pcW = "done")
    /\ [][(pcW = "loop" /\ pcW' = "loop") =>
             \/ (index' = index + 1 /\ lines' \in {lines, Append(lines, words[index + 1])})
             \/ (index' = index /\ Len(lines') = Len(lines) + 1)]_vars

C9_Witness ==
    /\ pcW = "done"
    /\ max_width <= 0
    /\ Len(words) = 3
    /\ max_lines = 3
    /\ lines[1] = words[1]
    /\ lines[2] = words[2]

-----------------------------------------------------------------------------
(* Claims about crop_center_aspect *)

Abs(x) == IF x >= 0 THEN x ELSE -x

\* C10: the crop box lies inside the source, is centred (the two margins
\* differ by at most one pixel), has size (floor(h*r), h) when w/h > r and
\* (w, floor(w/r)) otherwise, so its aspect ratio is r within one pixel;
\* 2000x1000 with r = 0.8 gives 800x1000 at left = 600.
C10_CropBox ==
    pcK = "done" =>
        LET w == img_size[1]
            h == img_size[2]
            p == target_ratio[1]
            q == target_ratio[2]
            left == crop_box[1]
            top == crop_box[2]
            right == crop_box[3]
            bottom == crop_box[4]
            bw == right - left
            bh == bottom - top
        IN  /\ 0 <= left /\ left <= right /\ right <= w
            /\ 0 <= top /\ top <= bottom /\ bottom <= h
            /\ Abs(left - (w - right)) <= 1
            /\ Abs(top - (h - bottom)) <= 1
            /\ IF w * q > h * p
               THEN bh = h /\ bw * q <= h * p /\ h * p < (bw + 1) * q
               ELSE bw = w /\ bh * p <= w * q /\ w * q < (bh + 1) * p
            /\ (img_size = <<2000, 1000>> /\ target_ratio = <<4, 5>>) =>
                  crop_box = <<600, 0, 1400, 1000>>

C10_Witness ==
    /\ pcK = "done"
    /\ img_size = <<2000, 1000>>
    /\ target_ratio = <<4, 5>>
    /\ crop_box = <<600, 0, 1400, 1000>>

-----------------------------------------------------------------------------
(* Claims about the edition composer and the two entry points *)

\* the output size an edition configures: output.width x output.height,
\* 1080 x 1350 where the configuration is silent
configured_size(cfg) ==
    <<GetS(GetD(cfg, "output"), "width", 1080), GetS(GetD(cfg, "output"), "height", 1350)>>

\* C11: every canvas _apply_edition returns has exactly the configured output
\* size, whatever the size of the source image and the mode of the edition
C11_CanvasSize ==
    \A i \in 1..Len(composed) :
        composed[i].canvas.size = configured_size(composed[i].cfg)

\* the steps the composer is to run for a configuration, in order
expected_steps(cfg, canvas) ==
    SelectSeq(<<"vignette", "bottom_shadow", "title", "category">>,
              LAMBDA st : \/ st = "title"
                          \/ st = "category" /\ canvas.category # <<>>
                          \/ st \in DOMAIN GetD(cfg, "filters"))

\* C12: the composer runs canvas, vignette, bottom shadow, title, category in
\* that order, the vignette exactly when filters.vignette is configured and
\* the bottom shadow exactly when filters.bottom_shadow is configured
C12_StepsInOrder ==
    \A i \in 1..Len(composed) :
        SelectSeq(composed[i].canvas.steps, LAMBDA st : st # "blur")
            = expected_steps(composed[i].cfg, composed[i].canvas)

\* the edition composes and encodes without an exception
edition_ok(ed_cfg) ==
    /\ apply_edition(image, link_title, link_category, ed_cfg).ok
    /\ save_to_bytes(apply_edition(image, link_title, link_category, ed_cfg),
                     GetS(GetD(ed_cfg, "output"), "format", "JPEG")).ok

VariantsOf(eds) == [i \in 1..Len(eds) |-> GetS(eds[i], "_variant", "variant")]
ResultVariants == [i \in 1..Len(results) |-> results[i].variant]

\* C13: once generate_all_from_link has its metadata, base image and editions,
\* no failure of an edition leaves the function: the results are exactly the
\* editions that compose and encode, in edition order, and the function
\* returns only after every edition was attempted
C13_FailuresIsolated ==
    (entry = "link" /\ editions # <<>>) =>
        /\ pcE \in {"l_loop", "returned"}
        /\ error = NoError
        /\ ResultVariants = VariantsOf(SelectSeq(SubSeq(editions, 1, ed_i), edition_ok))
        /\ Len(results) + Len(failures) = ed_i
        /\ pcE = "returned" => ed_i = Len(editions)

\* three editions, the second fails, the first and the third are returned
C13_Witness ==
    /\ entry = "link"
    /\ pcE = "returned"
    /\ VariantsOf(editions) = <<"a", "b", "c">>
    /\ failures = <<"b">>
    /\ ResultVariants = <<"a", "c">>

\* the title font path of the edition names no loadable font
bad_font(ed_cfg) ==
    GetS(GetD(ed_cfg, "text"), "title_font",
         <<GetS(GetD(ed_cfg, "assets"), "fonts_dir", "assets/fonts"),
           "Montserrat-Light.ttf">>) \notin FontFiles

\* the sizes of the edition are numbers and its output format can be written
sizes_and_format_ok(ed_cfg) ==
    /\ GetS(GetD(ed_cfg, "text"), "title_size", "56") \in IntLiterals
    /\ GetS(GetD(ed_cfg, "text"), "category_size", "36") \in IntLiterals
    /\ GetS(GetD(ed_cfg, "blur"), "radius", "25") \in IntLiterals
    /\ \/ image.mode \in {"RGBA", "LA"}
       \/ UpperFormat(GetS(GetD(ed_cfg, "output"), "format", "JPEG")) \in KnownFormats

result_mode(r) ==
    LET ed == CHOOSE ed \in {editions[i] : i \in 1..Len(editions)} :
                  GetS(ed, "_variant", "variant") = r.variant
    IN  Lower(GetS(ed, "mode", KwRecorte))

\* C15: generate_all_from_link called with an effect, as the webhook handler
\* calls it, completes and returns results only for the editions of that
\* mode; called without one it returns a result for every sound edition
C15_EffectFilters ==
    /\ (entry = "link" /\ effect_kw.passed /\ pcE # "start") =>
            /\ pcE # "raised" \/ error # "TypeError"
            /\ (pcE = "returned" /\ effect_kw.value # None) =>
                   \A i \in 1..Len(results) : result_mode(results[i]) = effect_kw.value
    /\ (entry = "link" /\ ~effect_kw.passed /\ pcE = "returned") =>
            ResultVariants = VariantsOf(SelectSeq(editions, edition_ok))

\* C16: when the metadata collaborator reports an error, or no image URL,
\* generate_all_from_link raises an error carrying the description, without
\* downloading an image, composing an edition or asking the collaborator again
C16_MetaErrorIsFatal ==
    (entry = "link" /\ fetches >= 1 /\ (meta.error # "none" \/ meta.image_url = "none")) =>
        /\ pcE = "raised"
        /\ error = IF meta.error # "none" THEN meta.error
                   ELSE "No se encontro imagen en el enlace."
        /\ fetches = 1
        /\ downloads = 0
        /\ image = NoImage
        /\ editions = <<>>
        /\ composed = <<>>
        /\ results = <<>>

\* the collaborator reported a failed page download and the call raised it
C16_Witness ==
    /\ entry = "link"
    /\ fetches = 1
    /\ meta.error = "Error al descargar"
    /\ pcE = "raised"
    /\ error = "Error al descargar"

\* the synthetic configuration: the base settings, named "default", with the
\* mode of the base settings or recorte
is_default_edition(cfg) ==
    /\ DOMAIN cfg = DOMAIN base_settings \cup {"_variant", "mode"}
    /\ cfg["_variant"] = S("default")
    /\ cfg["mode"] = IF "mode" \in DOMAIN base_settings
                     THEN base_settings["mode"] ELSE S(KwRecorte)
    /\ \A k \in DOMAIN base_settings \ {"mode"} : cfg[k] = base_settings[k]

\* C17: an absent editions directory loads as the empty list without an
\* error, and whenever the loaded list is empty generate_all_from_link runs
\* the composer exactly once, with the synthetic configuration
C17_DefaultEdition ==
    (entry = "link" /\ pcE \in {"l_loop", "returned"}) =>
        /\ ~dir.exists => (loaded = <<>> /\ error = NoError)
        /\ loaded = <<>> =>
              /\ Len(editions) = 1
              /\ is_default_edition(editions[1])
              /\ pcE = "returned" =>
                    /\ Len(composed) = 1
                    /\ composed[1].cfg = editions[1]
                    /\ Lower(composed[1].cfg["mode"][2]) = KwBlur
                           <=> composed[1].canvas.steps[1] = "blur"

\* no editions directory: one canvas, composed from the synthetic recorte
\* configuration
C17_Witness ==
    /\ entry = "link"
    /\ pcE = "returned"
    /\ ~dir.exists
    /\ loaded = <<>>
    /\ Len(composed) = 1
    /\ composed[1].cfg["_variant"] = S("default")
    /\ composed[1].cfg["mode"] = S(KwRecorte)
    /\ Len(results) = 1

\* the kind generate_from_media routes the caption to
media_route == media_kind(media_caption).kind

\* the mode an edition file has once laid over the base settings, lower-cased
file_mode(f) ==
    Lower(IF "mode" \in DOMAIN f.json THEN f.json["mode"][2]
          ELSE GetS(base_settings, "mode", <<>>))

\* the loadable files of the directory whose mode is the routed kind
matching_files ==
    IF ~dir.exists THEN {}
    ELSE { f \in {dir.glob[i] : i \in 1..Len(dir.glob)} :
             f.valid /\ file_mode(f) = KindText(media_route) }

\* C18: for a Recorte or Blur caption generate_from_media composes with the
\* first edition, in sorted file-name order, whose mode equals the kind
\* whatever its letter case; with no such edition it raises and produces
\* nothing
C18_FirstByFileName ==
    (entry = "media" /\ media_route \in {"recorte", "blur"} /\ pcE # "m_route") =>
        IF matching_files = {}
        THEN /\ pcE = "raised"
             /\ error = "No existe una edicion con mode"
             /\ chosen = <<>>
             /\ composed = <<>>
             /\ results = <<>>
        ELSE /\ Len(chosen) = 1
             /\ \E f \in matching_files :
                   /\ chosen[1]["_variant"] = S(f.name)
                   /\ \A g \in matching_files : Rank(f.name) <= Rank(g.name)
             /\ \A i \in 1..Len(composed) : composed[i].cfg = chosen[1]
             /\ pcE = "returned" => Len(composed) = 1 /\ Len(results) = 1

\* glob lists a matching file first that is not first by name; the edition
\* first by name, whose mode is spelt "Blur", is the one composed
C18_Witness ==
    /\ entry = "media"
    /\ media_route = "blur"
    /\ pcE = "returned"
    /\ Len(dir.glob) >= 2
    /\ dir.glob[1] \in matching_files
    /\ dir.glob[1].name # "a"
    /\ chosen[1]["_variant"] = S("a")
    /\ chosen[1]["mode"] = S(<<"B", "l", "u", "r">>)
    /\ composed[1].cfg = chosen[1]

C20_UnknownPassThrough ==
    (/\ entry = "media"
     /\ pcE # "m_route"
     /\ (media_caption = None \/ LStrip(media_caption) = <<>>)) =>
        /\ pcE = "returned"
        /\ error = NoError
        /\ Len(results) = 1
        /\ results[1].bytes = image_bytes
        /\ results[1].bytes.encoding = "original"
        /\ composed = <<>>

\* a blank caption: the bytes received are the bytes returned
C20_Witness ==
    /\ entry = "media"
    /\ pcE = "returned"
    /\ media_caption = <<"\t", " ">>
    /\ results[1].bytes = image_bytes
    /\ results[1].filename = <<"original", "jpg">>

\* C21: every image the media router encodes is written as PNG exactly when
\* it carries an alpha channel and as JPEG otherwise, and the extension of the
\* suggested file name agrees: "png" with alpha, "jpg" without
C21_ExtensionMatchesFormat ==
    (entry = "media" /\ pcE = "returned" /\ results[1].bytes.encoding # "original") =>
        LET alpha == results[1].bytes.img.mode \in {"RGBA", "LA"}
        IN  /\ results[1].bytes.encoding = (IF alpha THEN "PNG" ELSE "JPEG")
            /\ results[1].filename[2] = (IF alpha THEN "png" ELSE "jpg")

-----------------------------------------------------------------------------
(* Claims about the configuration merge *)

\* out is the merge of override over base: the keys are those of both; at a
\* key of override the value is the merge when both values are dicts and
\* override's value otherwise; a key of base alone keeps base's value
RECURSIVE is_merge(_, _, _)
is_merge(out, base, override) ==
    /\ DOMAIN out = DOMAIN base \cup DOMAIN override
    /\ \A k \in DOMAIN override :
          IF k \in DOMAIN base /\ base[k][1] = "d" /\ override[k][1] = "d"
          THEN /\ out[k][1] = "d"
               /\ is_merge(out[k][2], base[k][2], override[k][2])
          ELSE out[k] = override[k]
    /\ \A k \in DOMAIN base \ DOMAIN override : out[k] = base[k]

\* C22: the merge_out configuration has the keys of base and override; at each
\* key of override it holds the recursive merge when both values are
\* mappings and override's value wholesale otherwise; keys of base alone keep
\* base's value
C22_MergedConfiguration ==
    pcM \in {"deep", "dict"} => is_merge(merge_out, merge_base, merge_override)

\* _deep_merge merge_out a nested mapping key by key and replaced a scalar by a
\* mapping
C22_Witness ==
    /\ pcM = "deep"
    /\ merge_base = ("a" :> D(("a" :> S(1)) @@ ("b" :> S(1)))) @@ ("b" :> S(1))
    /\ merge_override = ("a" :> D("a" :> S(2))) @@ ("b" :> D("a" :> S(1)))
    /\ merge_out = ("a" :> D(("a" :> S(2)) @@ ("b" :> S(1)))) @@ ("b" :> D("a" :> S(1)))

\* the configuration a request is to see: its override merged over the base
\* settings as loaded, under its variant name
own_configuration(r) ==
    IF r.variant = "default" THEN default_edition(settings0)
    ELSE ("_variant" :> S(r.variant)) @@ ("_variant_path" :> S(r.variant))
         @@ deep_merge(settings0, r.override)

\* C23: the base settings, nested mappings included, are unchanged by any
\* sequence of merges, edition loads and compositions, and every request,
\* however interleaved with others over the same base settings, sees exactly
\* its own merged configuration
C23_BaseSettingsUnchanged ==
    settings # 0 =>
        /\ Deref(heap, settings) = settings0
        /\ \A i \in 1..Len(requests) :
              /\ Deref(heap, requests[i].cfg) = own_configuration(requests[i])
              /\ requests[i].seen \in {<<>>, <<own_configuration(requests[i])>>}

\* two requests with different overrides were built before either composed,
\* the first shares the nested text mapping with the base settings, and each
\* read its own configuration
C23_Witness ==
    /\ Len(requests) = 2
    /\ requests[1].override # requests[2].override
    /\ "text" \notin DOMAIN requests[1].override
    /\ heap[requests[1].cfg]["text"] = heap[settings]["text"]
    /\ requests[1].seen = <<own_configuration(requests[1])>>
    /\ requests[2].seen = <<own_configuration(requests[2])>>

\* C24: logo.apply returns an RGB image and leaves its input as it was,
\* watermark.apply returns an image of its input's mode, for RGB and RGBA
\* inputs alike, and both composite the overlay on an RGBA canvas
C24_OverlayModes ==
    applied.out # 0 =>
        /\ applied.proc = "logo" =>
              /\ imgs[applied.out].mode = "RGB"
              /\ imgs[applied.input] = applied.before
        /\ applied.proc = "watermark" =>
              imgs[applied.out].mode = applied.before.mode
        /\ applied.proc \in {"logo", "watermark"} =>
              /\ Len(imgs[applied.out].marks) = 1
              /\ imgs[applied.out].marks[1] = [op |-> applied.proc, canvas |-> "RGBA"]

\* the logo was laid on an RGBA image of an image call
C24_Witness ==
    /\ pcU = "returned"
    /\ media_result[1].pipeline = "image"
    /\ applied.proc = "logo"
    /\ applied.before.mode = "RGBA"
    /\ imgs[applied.out].mode = "RGB"

\* C26: a buffer that starts with "RIFF" goes to the video pipeline only if
\* "AVI " occurs in its first 64 bytes; a RIFF buffer without the marker,
\* such as a WebP image, goes to the image pipeline
C26_RiffVideoOnlyWithAvi ==
    (pcU \in {"video", "image"} /\ StartsWith(media_bytes.bytes, Riff)) =>
        (pcU = "video" => Contains(Take(media_bytes.bytes, 64), Avi))

\* C28: on an image, process_image and generate_from_media select the same
\* kind, call the same processor with the same text, and return the bytes
\* received for a caption of unknown kind
C28_RoutersAgree ==
    (pcU = "returned" /\ media_result[1].pipeline = "image") =>
        /\ applied.kind = media_effect(media_cap).kind
        /\ applied.proc = media_effect(media_cap).proc
        /\ applied.text = media_effect(media_cap).text
        /\ media_effect(media_cap).original => media_result[1].bytes.encoding = "original"

\* how often the handler made the call named
times_called(name) == Cardinality({i \in 1..Len(calls) : calls[i][1] = name})

\* C25: for an image or video message each of get-media-URL, download,
\* process, upload and send is performed at most once, and when every text
\* the handler sends is accepted the handling ends with exactly one of the
\* processed media delivered or an error text delivered, whatever step
\* failed, the final send being rejected included
C25_MediaOrErrorText ==
    classified.kind \in {"image", "video"} =>
        /\ \A i \in 2..6 : times_called(HandlerSteps[i]) <= 1
        /\ (/\ pcB \in {"answered", "crashed"}
            /\ \A i \in 1..Len(calls) :
                  calls[i][1] \in {"send_text", "send_error_text"} => calls[i][2] = "ok")
           => Cardinality({i \in 1..Len(delivered) : delivered[i] \in {"media", "error"}}) = 1

\* C27: for a text body that contains a URL, classify_message returns
\* text_link with the URL matched and with the token that follows that URL
\* as effect, None when nothing follows, wherever the URL is in the body
C27_LinkAndEffect ==
    (message.type = "text" /\ url_match(Strip(message.body)) # <<>>) =>
        LET body == Strip(message.body)
            m == url_match(body)
            after == Split(Drop(body, m[2]))
        IN  /\ classified.kind = "text_link"
            /\ classified.url = SubSeq(body, m[1], m[2])
            /\ classified.effect = IF after = <<>> THEN None ELSE after[1]

\* C30: the verification request is answered 200 with the challenge only
\* when hub.mode is subscribe and the request carries a hub.verify_token
\* equal to a configured, non-empty token; every other request is answered
\* 403
C30_VerifyNeedsToken ==
    response.status # 0 =>
        LET granted == /\ request.mode = Subscribe
                       /\ request.token # None
                       /\ verify_token \notin {None, <<>>}
                       /\ request.token = verify_token
        IN  /\ granted => response = [status |-> 200, body |-> request.challenge]
            /\ ~granted => response.status = 403

\* the line ends with the ellipsis that truncation appends
ends_with_ellipsis(l) == Len(l) >= 3 /\ SubSeq(l, Len(l) - 2, Len(l)) = Ellipsis

\* the words of a returned line, an appended ellipsis left out
line_words(l) == Split(IF ends_with_ellipsis(l) THEN SubSeq(l, 1, Len(l) - 3) ELSE l)

\* the words of all returned lines, in order
returned_words == Concat([i \in 1..Len(lines) |-> line_words(lines[i])])

\* C29: the words of the lines returned by get_title_lines, an appended
\* ellipsis left out, are in order a prefix of the upper-cased words of the
\* title, and all of them when the last line was not truncated
C29_WordsArePrefix ==
    pcW = "done" =>
        /\ StartsWith(Split(Upper(title_text)), returned_words)
        /\ ~(lines # <<>> /\ ends_with_ellipsis(lines[Len(lines)])) =>
              returned_words = Split(Upper(title_text))

\* C29, for a limit of at least one line: the words of the lines returned,
\* an appended ellipsis left out, are in order a prefix of the upper-cased
\* words of the title, and all of them when the last line was not truncated
C29_WordsArePrefixOfOneLineUp ==
    (pcW = "done" /\ max_lines >= 1) =>
        /\ StartsWith(Split(Upper(title_text)), returned_words)
        /\ ~(lines # <<>> /\ ends_with_ellipsis(lines[Len(lines)])) =>
              returned_words = Split(Upper(title_text))

\* a title of three words returned on two lines, the second truncated after
\* its first word
C29_Witness ==
    /\ pcW = "done"
    /\ max_lines = 2
    /\ Len(Split(Upper(title_text))) = 3
    /\ Len(lines) = 2
    /\ ends_with_ellipsis(lines[2])
    /\ Len(returned_words) = 2

====
